---- MODULE Spec2Model ----
(***************************************************************************)
(* Model of the DCF assumption validator (validate_assumptions.py), of the *)
(* historical metrics calculator (calculate_metrics.py) and of the         *)
(* financial statement parser (parse_financial_statements.py).             *)
(*                                                                         *)
(* Numbers.  Assumption values (rates, margins, multiples, day counts) are *)
(* integers counting hundredths: 0.04 is 4, beta 1.1 is 110, 15 days is    *)
(* 1500.  projection_years is a plain count.  Arithmetic on them is exact  *)
(* (fractions num/den), where Python uses binary floating point.           *)
(*                                                                         *)
(* Optional values.  Python's None is the empty tuple, a present value v   *)
(* is the one-element tuple <<v>>.  A dict is a function whose DOMAIN is   *)
(* the set of keys it holds, so a missing key and a key holding None are   *)
(* different dicts, as in Python.                                          *)
(***************************************************************************)
EXTENDS Integers, Sequences, FiniteSets, TLC

VARIABLES
    assumptions,   \* AssumptionValidator.assumptions: category -> dict
    result,        \* AssumptionValidator.result: ValidationResult
    pc,            \* validate_all: the check that runs next, "done" or "raised"
    pending,       \* _add_issue calls of the running check not yet made
    runs,          \* validate_all invocations on this instance that returned
    data,          \* MetricsCalculator: income, balance, cashflow statements
    years,         \* MetricsCalculator.years
    metrics,       \* the HistoricalMetrics under construction
    mpc,           \* calculate_all: the calculation that runs next, or "done"
    averages,      \* the dict get_averages returned
    call,          \* a call of a MetricsCalculator helper: its arguments
    returned,      \* what the helper call returned, {} before it returns
    financial_data \* FinancialStatementParser.financial_data

vars ==
    <<assumptions, result, pc, pending, runs, data, years, metrics, mpc,
      averages, call, returned, financial_data>>

vvars == <<assumptions, result, pc, pending, runs>>

mvars == <<data, years, metrics, mpc, averages>>

hvars == <<call, returned>>

pvars == <<financial_data>>

-----------------------------------------------------------------------------
(* Python values *)

None == <<>>

Some(v) == <<v>>

Val(x) == x[1]

EmptyDict == [k \in {} |-> None]

\* dict.get(key): None for a missing key
Get(d, key) == IF key \in DOMAIN d THEN d[key] ELSE None

\* dict.get(key, default)
GetDefault(d, key, default) == IF key \in DOMAIN d THEN d[key] ELSE default

\* truth value of an optional number: None and 0 are false
Truthy(x) == x /= None /\ Val(x) /= 0

RECURSIVE Gcd(_, _)
Gcd(x, y) == IF y = 0 THEN x ELSE Gcd(y, x % y)

Abs(x) == IF x < 0 THEN -x ELSE x

\* the fraction num/den in lowest terms with a positive denominator
Reduce(num, den) ==
    LET g == Gcd(Abs(num), Abs(den))
        sgn == IF den < 0 THEN -1 ELSE 1
    IN  [num |-> sgn * (num \div g), den |-> sgn * (den \div g)]

\* self.assumptions.get(category, {})
Section(a, category) == IF category \in DOMAIN a THEN a[category] ELSE EmptyDict

\* _get_assumption(category, key)
get_assumption(a, category, key) == Get(Section(a, category), key)

Severity == [ERROR |-> "error", WARNING |-> "warning", INFO |-> "info"]

ValidationIssue(category, field, message, severity, suggestion) ==
    [category |-> category, field |-> field, message |-> message,
     severity |-> severity, suggestion |-> suggestion]

\* ValidationResult(is_valid=True)
NewValidationResult ==
    [is_valid |-> TRUE, issues |-> <<>>, missing_required |-> <<>>,
     warnings |-> <<>>]

-----------------------------------------------------------------------------
(* Tables *)

REQUIRED_ASSUMPTIONS ==
    [model_config |-> <<"dcf_type", "complexity", "projection_years",
                        "terminal_method">>,
     revenue |-> <<"revenue_growth_y1", "revenue_growth_y2",
                   "revenue_growth_y3", "terminal_growth_rate">>,
     costs |-> <<"gross_margin_target", "opex_pct_revenue">>,
     capital_structure |-> <<"risk_free_rate", "equity_risk_premium", "beta">>,
     terminal_value |-> <<>>]

\* (min, max) in hundredths
REASONABLE_RANGES ==
    [revenue_growth |-> <<-20, 50>>,
     terminal_growth_rate |-> <<0, 4>>,
     perpetuity_growth_rate |-> <<0, 4>>,
     gross_margin |-> <<5, 95>>,
     ebit_margin |-> <<-20, 60>>,
     risk_free_rate |-> <<1, 10>>,
     equity_risk_premium |-> <<3, 10>>,
     beta |-> <<30, 300>>,
     cost_of_debt |-> <<2, 15>>,
     tax_rate |-> <<10, 40>>,
     exit_multiple |-> <<300, 2500>>,
     capex_pct_revenue |-> <<1, 25>>,
     dso_days |-> <<1500, 12000>>,
     dio_days |-> <<0, 18000>>,
     dpo_days |-> <<1500, 12000>>,
     wacc |-> <<5, 20>>]

-----------------------------------------------------------------------------
(* Number formatting of the messages; v counts hundredths *)

\* f"{v:.0%}"
Pct0(v) == ToString(v) \o "%"

\* f"{v:.1%}"
Pct1(v) == ToString(v) \o ".0%"

\* f"{v:.2%}"
Pct2(v) == ToString(v) \o ".00%"

\* f"{w:.1%}" of the rate w = num/den, den > 0: tenths of a percent.  A tie
\* is rounded to the even digit; Python prints whichever digit the binary
\* float of the rate is nearer to.
Pct1Frac(w) ==
    LET q == (1000 * w.num) \div w.den
        r == (1000 * w.num) % w.den
        t == IF 2 * r > w.den \/ (2 * r = w.den /\ q % 2 = 1) THEN q + 1 ELSE q
        a == IF t < 0 THEN -t ELSE t
    IN  (IF t < 0 THEN "-" ELSE "") \o ToString(a \div 10) \o "."
            \o ToString(a % 10) \o "%"

-----------------------------------------------------------------------------
(* AssumptionValidator *)

\* _add_issue with a non-ERROR issue setting is_valid back to true
add_issue_revalidates(res, issue) ==
    LET withIssue == [res EXCEPT !.issues = Append(@, issue)]
    IN  IF issue.severity = Severity.ERROR
        THEN [withIssue EXCEPT
                !.is_valid = FALSE,
                !.missing_required =
                    Append(@, issue.category \o "." \o issue.field)]
        ELSE IF issue.severity = Severity.WARNING
        THEN [withIssue EXCEPT
                !.is_valid = TRUE,
                !.warnings =
                    Append(@, issue.category \o "." \o issue.field \o ": "
                                  \o issue.message)]
        ELSE [withIssue EXCEPT !.is_valid = TRUE]

\* _add_issue with `else` for `elif severity == Severity.WARNING`
add_issue_else_warning(res, issue) ==
    LET withIssue == [res EXCEPT !.issues = Append(@, issue)]
    IN  IF issue.severity = Severity.ERROR
        THEN [withIssue EXCEPT
                !.is_valid = FALSE,
                !.missing_required =
                    Append(@, issue.category \o "." \o issue.field)]
        ELSE [withIssue EXCEPT
                !.warnings =
                    Append(@, issue.category \o "." \o issue.field \o ": "
                                  \o issue.message)]

\* _add_issue: the result after recording `issue`
add_issue(res, issue) ==
    LET withIssue == [res EXCEPT !.issues = Append(@, issue)]
    IN  IF issue.severity = Severity.ERROR
        THEN [withIssue EXCEPT
                !.is_valid = FALSE,
                !.missing_required =
                    Append(@, issue.category \o "." \o issue.field)]
        ELSE IF issue.severity = Severity.WARNING
        THEN [withIssue EXCEPT
                !.warnings =
                    Append(@, issue.category \o "." \o issue.field \o ": "
                                  \o issue.message)]
        ELSE withIssue

\* _check_required: the issues it records for `fields` of `category`
check_required(a, category, fields) ==
    LET cat_data == Section(a, category)
        missing == SelectSeq(fields, LAMBDA f : Get(cat_data, f) = None)
    IN  [i \in 1..Len(missing) |->
            ValidationIssue(category, missing[i],
                "Required assumption '" \o missing[i] \o "' is missing",
                Severity.ERROR,
                Some("Please provide a value for " \o missing[i]))]

\* _check_range with `<=` and `>=` for `<` and `>`: the bounds are outside
check_range_bounds_outside(category, field, value, range_key) ==
    IF range_key \notin DOMAIN REASONABLE_RANGES
    THEN <<>>
    ELSE LET min_val == REASONABLE_RANGES[range_key][1]
             max_val == REASONABLE_RANGES[range_key][2]
         IN  IF value <= min_val \/ value >= max_val
             THEN << ValidationIssue(category, field,
                        "Value " \o Pct2(value)
                            \o " is outside typical range (" \o Pct0(min_val)
                            \o " to " \o Pct0(max_val) \o ")",
                        Severity.WARNING,
                        Some("Verify this assumption is intentional")) >>
             ELSE <<>>

\* _check_range with an explicit range_key: the issues it records (none or one)
check_range(category, field, value, range_key) ==
    IF range_key \notin DOMAIN REASONABLE_RANGES
    THEN <<>>
    ELSE LET min_val == REASONABLE_RANGES[range_key][1]
             max_val == REASONABLE_RANGES[range_key][2]
         IN  IF value < min_val \/ value > max_val
             THEN << ValidationIssue(category, field,
                        "Value " \o Pct2(value)
                            \o " is outside typical range (" \o Pct0(min_val)
                            \o " to " \o Pct0(max_val) \o ")",
                        Severity.WARNING,
                        Some("Verify this assumption is intentional")) >>
             ELSE <<>>

\* an issue recorded when `cond` holds
IssueIf(cond, category, field, message, severity, suggestion) ==
    IF cond
    THEN << ValidationIssue(category, field, message, severity, suggestion) >>
    ELSE <<>>

\* unusual_projection_years with the bounds 3 and 15 excluded
unusual_projection_years_exclusive(yrs) == yrs <= 3 \/ yrs >= 15

\* years < 3 or years > 15
unusual_projection_years(yrs) == yrs < 3 \/ yrs > 15

\* validate_model_config: the issues it records, in order
validate_model_config(a) ==
    LET config == Section(a, "model_config")
        dcf_type == Get(config, "dcf_type")
        complexity == Get(config, "complexity")
        yrs == Get(config, "projection_years")
        method == Get(config, "terminal_method")
    IN  IssueIf(dcf_type \notin {Some("unlevered"), Some("levered")},
                "model_config", "dcf_type",
                "DCF type must be 'unlevered' (WACC) or 'levered' (equity)",
                Severity.ERROR, None)
        \o
        IssueIf(complexity \notin {Some("2-stage"), Some("3-stage"), Some("lbo")},
                "model_config", "complexity",
                "Complexity must be '2-stage', '3-stage', or 'lbo'",
                Severity.ERROR, None)
        \o
        (IF yrs = None
         THEN IssueIf(TRUE, "model_config", "projection_years",
                      "Projection period is required", Severity.ERROR, None)
         ELSE IssueIf(unusual_projection_years(Val(yrs)),
                      "model_config", "projection_years",
                      "Projection period of " \o ToString(Val(yrs))
                          \o " years is unusual (typical: 5-10)",
                      Severity.WARNING, None))
        \o
        IssueIf(method \notin {Some("perpetuity"), Some("exit_multiple"), Some("both")},
                "model_config", "terminal_method",
                "Terminal method must be 'perpetuity', 'exit_multiple', or 'both'",
                Severity.ERROR, None)

Min(x, y) == IF x <= y THEN x ELSE y

\* the loop body of validate_revenue_assumptions for year i
revenue_growth_year(revenue, i) ==
    LET key == "revenue_growth_y" \o ToString(i)
        value == Get(revenue, key)
    IN  IF value = None /\ i <= 3
        THEN IssueIf(TRUE, "revenue", key,
                     "Year " \o ToString(i) \o " revenue growth rate is required",
                     Severity.ERROR, None)
        ELSE IF value /= None
        THEN check_range("revenue", key, Val(value), "revenue_growth")
        ELSE <<>>

RECURSIVE revenue_growth_loop(_, _, _)
\* for i in range(i, stop)
revenue_growth_loop(revenue, i, stop) ==
    IF i >= stop
    THEN <<>>
    ELSE revenue_growth_year(revenue, i)
            \o revenue_growth_loop(revenue, i + 1, stop)

\* a variant of section_check that goes on to the per-field checks of a
\* missing section
section_check_without_return(section, missing, checks) ==
    IF DOMAIN section = {} THEN missing \o checks ELSE checks

\* `if not section:` the _add_issue call for field 'all' and `return`; the
\* per-field checks of the section otherwise
section_check(section, missing, checks) ==
    IF DOMAIN section = {} THEN missing ELSE checks

\* validate_revenue_assumptions: the issues it records, in order
validate_revenue_assumptions(a) ==
    LET revenue == Section(a, "revenue")
        py == get_assumption(a, "model_config", "projection_years")
        projection_years == IF Truthy(py) THEN Val(py) ELSE 5
        terminal_growth == Get(revenue, "terminal_growth_rate")
    IN  section_check(revenue,
             IssueIf(TRUE, "revenue", "all",
                     "Revenue assumptions section is missing",
                     Severity.ERROR, None),
             revenue_growth_loop(revenue, 1, Min(projection_years + 1, 6))
             \o
             (IF terminal_growth = None
              THEN IssueIf(TRUE, "revenue", "terminal_growth_rate",
                           "Terminal growth rate is required",
                           Severity.ERROR, None)
              ELSE check_range("revenue", "terminal_growth_rate",
                               Val(terminal_growth), "terminal_growth_rate")
                   \o
                   IssueIf(Val(terminal_growth) > 3,
                           "revenue", "terminal_growth_rate",
                           "Terminal growth of " \o Pct1(Val(terminal_growth))
                               \o " exceeds long-term GDP growth",
                           Severity.WARNING,
                           Some("Consider using 2-3% for mature companies"))))

\* validate_cost_assumptions: the issues it records, in order
validate_cost_assumptions(a) ==
    LET costs == Section(a, "costs")
        gm == Get(costs, "gross_margin_target")
        opex == Get(costs, "opex_pct_revenue")
    IN  section_check(costs,
             IssueIf(TRUE, "costs", "all",
                     "Cost assumptions section is missing",
                     Severity.ERROR, None),
             (IF gm /= None
              THEN check_range("costs", "gross_margin_target", Val(gm),
                               "gross_margin")
              ELSE <<>>)
             \o
             IssueIf(opex = None, "costs", "opex_pct_revenue",
                     "Operating expenses as % of revenue is required",
                     Severity.ERROR, None))

\* required_in_range testing `field not in cap` for `cap.get(field) is None`
required_in_range_key_test(cap, field, message) ==
    IF field \notin DOMAIN cap
    THEN IssueIf(TRUE, "capital_structure", field, message,
                 Severity.ERROR, None)
    ELSE IF cap[field] /= None
    THEN check_range("capital_structure", field, Val(cap[field]), field)
    ELSE <<>>

\* a required, range-checked field of validate_capital_structure
required_in_range(cap, field, message) ==
    LET value == Get(cap, field)
    IN  IF value = None
        THEN IssueIf(TRUE, "capital_structure", field, message,
                     Severity.ERROR, None)
        ELSE check_range("capital_structure", field, Val(value), field)

\* cost_of_debt_required without `and target_de and target_de > 0`
cost_of_debt_required_without_debt(cod, target_de) == cod = None

\* cod is None and target_de and target_de > 0
cost_of_debt_required(cod, target_de) ==
    cod = None /\ Truthy(target_de) /\ Val(target_de) > 0

\* validate_capital_structure: the issues it records, in order
validate_capital_structure(a) ==
    LET cap == Section(a, "capital_structure")
        dcf_type == get_assumption(a, "model_config", "dcf_type")
        target_de == Get(cap, "target_debt_to_equity")
        cod == Get(cap, "cost_of_debt")
    IN  section_check(cap,
             IssueIf(TRUE, "capital_structure", "all",
                     "Capital structure assumptions section is missing",
                     Severity.ERROR, None),
             required_in_range(cap, "risk_free_rate",
                "Risk-free rate is required (typically 10-year Treasury yield)")
             \o
             required_in_range(cap, "equity_risk_premium",
                "Equity risk premium is required (typically 5-6%)")
             \o
             required_in_range(cap, "beta",
                "Beta is required for cost of equity calculation")
             \o
             (IF dcf_type = Some("unlevered")
              THEN IssueIf(target_de = None,
                           "capital_structure", "target_debt_to_equity",
                           "Target D/E ratio is required for WACC calculation",
                           Severity.ERROR, None)
                   \o
                   (IF cost_of_debt_required(cod, target_de)
                    THEN IssueIf(TRUE, "capital_structure", "cost_of_debt",
                            "Cost of debt is required when using debt financing",
                            Severity.ERROR, None)
                    ELSE IF cod /= None
                    THEN check_range("capital_structure", "cost_of_debt",
                                     Val(cod), "cost_of_debt")
                    ELSE <<>>)
              ELSE <<>>))

\* _calculate_implied_wacc.  The outcome is one of
\*   [kind |-> "None"]                      the check is skipped
\*   [kind |-> "rate", num |-> n, den |-> d] the rate n/d, d > 0
\*   [kind |-> "TypeError"]                 arithmetic on None raises
\*   [kind |-> "ZeroDivisionError"]         1 + target_de is 0
calculate_implied_wacc(a) ==
    LET cap == Section(a, "capital_structure")
        rf == Get(cap, "risk_free_rate")
        erp == Get(cap, "equity_risk_premium")
        beta == Get(cap, "beta")
        \* ke = rf + beta * erp, as ke_num / 10000
        ke_num == 100 * Val(rf) + Val(beta) * Val(erp)
        target_de == GetDefault(cap, "target_debt_to_equity", Some(0))
        cod == GetDefault(cap, "cost_of_debt", Some(5))
        tax_rate == GetDefault(cap, "tax_rate", Some(25))
        \* d_ratio = de / (100 + de), e_ratio = 100 / (100 + de)
        de == Val(target_de)
        num == 100 * ke_num + de * Val(cod) * (100 - Val(tax_rate))
        den == 10000 * (100 + de)
    IN  IF ~(Truthy(rf) /\ Truthy(erp) /\ Truthy(beta))
        THEN [kind |-> "None"]
        ELSE IF target_de /= None /\ de = 0
        THEN [kind |-> "rate", num |-> ke_num, den |-> 10000]
        ELSE IF target_de = None
        THEN [kind |-> "TypeError"]
        ELSE IF 100 + de = 0
        THEN [kind |-> "ZeroDivisionError"]
        ELSE IF cod = None \/ tax_rate = None
        THEN [kind |-> "TypeError"]
        ELSE IF den > 0
        THEN [kind |-> "rate", num |-> num, den |-> den]
        ELSE [kind |-> "rate", num |-> -num, den |-> -den]

\* truth value of the outcome of _calculate_implied_wacc: None and 0.0 are false
WaccTruthy(w) == w.kind = "rate" /\ w.num /= 0

\* pg >= wacc, pg in hundredths
GrowthAtLeast(pg, w) == pg * w.den >= 100 * w.num

Raises(w) == w.kind \in {"TypeError", "ZeroDivisionError"}

\* the perpetuity branch of validate_terminal_value
validate_perpetuity(a, tv) ==
    LET pg == Get(tv, "perpetuity_growth_rate")
        wacc == calculate_implied_wacc(a)
    IN  IF pg = None
        THEN [issues |-> IssueIf(TRUE, "terminal_value", "perpetuity_growth_rate",
                  "Perpetuity growth rate is required for Gordon Growth method",
                  Severity.ERROR, None),
              raised |-> FALSE]
        ELSE [issues |->
                  check_range("terminal_value", "perpetuity_growth_rate",
                              Val(pg), "perpetuity_growth_rate")
                  \o
                  (IF WaccTruthy(wacc) /\ GrowthAtLeast(Val(pg), wacc)
                   THEN IssueIf(TRUE, "terminal_value", "perpetuity_growth_rate",
                            "Growth rate (" \o Pct1(Val(pg))
                                \o ") must be less than WACC ("
                                \o Pct1Frac(wacc) \o ")",
                            Severity.ERROR, None)
                   ELSE <<>>),
              raised |-> Raises(wacc)]

\* the exit-multiple branch of validate_terminal_value
validate_exit_multiple(tv) ==
    LET em == Get(tv, "exit_multiple")
    IN  IF em = None
        THEN IssueIf(TRUE, "terminal_value", "exit_multiple",
                     "Exit EBITDA multiple is required", Severity.ERROR, None)
        ELSE check_range("terminal_value", "exit_multiple", Val(em),
                         "exit_multiple")

\* method in ["perpetuity", "both"]
uses_perpetuity(method) == method \in {Some("perpetuity"), Some("both")}

\* uses_exit_multiple holding for every valid method
uses_exit_multiple_every_method(method) ==
    method \in {Some("perpetuity"), Some("exit_multiple"), Some("both")}

\* method in ["exit_multiple", "both"]
uses_exit_multiple(method) == method \in {Some("exit_multiple"), Some("both")}

\* validate_terminal_value: the issues it records, in order, and whether it
\* ends by raising (the issues recorded before the raise are kept)
validate_terminal_value(a) ==
    LET tv == Section(a, "terminal_value")
        method == get_assumption(a, "model_config", "terminal_method")
        perp == IF uses_perpetuity(method)
                THEN validate_perpetuity(a, tv)
                ELSE [issues |-> <<>>, raised |-> FALSE]
        exit == IF uses_exit_multiple(method) /\ ~perp.raised
                THEN validate_exit_multiple(tv)
                ELSE <<>>
    IN  [issues |-> perp.issues \o exit, raised |-> perp.raised]

\* an optional value range-checked under its own name when present
range_if_present(d, category, field) ==
    LET value == Get(d, field)
    IN  IF value /= None
        THEN check_range(category, field, Val(value), field)
        ELSE <<>>

\* validate_working_capital: the issues it records, in order
validate_working_capital(a) ==
    LET wc == Section(a, "working_capital")
    IN  IF DOMAIN wc = {}
        THEN IssueIf(TRUE, "working_capital", "all",
                "Working capital assumptions are missing - will use historical averages",
                Severity.WARNING, None)
        ELSE range_if_present(wc, "working_capital", "dso_days")
             \o range_if_present(wc, "working_capital", "dio_days")
             \o range_if_present(wc, "working_capital", "dpo_days")

\* validate_capex recording an ERROR for a missing section
validate_capex_missing_is_error(a) ==
    LET capex == Section(a, "capex")
    IN  IF DOMAIN capex = {}
        THEN IssueIf(TRUE, "capex", "all",
                "CapEx assumptions are missing - will use historical averages",
                Severity.ERROR, None)
        ELSE range_if_present(capex, "capex", "capex_pct_revenue")

\* validate_capex: the issues it records, in order
validate_capex(a) ==
    LET capex == Section(a, "capex")
    IN  IF DOMAIN capex = {}
        THEN IssueIf(TRUE, "capex", "all",
                "CapEx assumptions are missing - will use historical averages",
                Severity.WARNING, None)
        ELSE range_if_present(capex, "capex", "capex_pct_revenue")

\* validate_scenarios: the issues it records, in order
validate_scenarios(a) ==
    LET scenarios == Section(a, "scenarios")
        required_scenarios == <<"base", "bull", "bear">>
        absent == SelectSeq(required_scenarios,
                            LAMBDA s : s \notin DOMAIN scenarios)
    IN  IF DOMAIN scenarios = {}
        THEN <<>>
        ELSE [i \in 1..Len(absent) |->
                ValidationIssue("scenarios", absent[i],
                    "'" \o absent[i] \o "' scenario is missing",
                    Severity.INFO, None)]

\* validate_all raises on assumption set a
validate_all_raises(a) == validate_terminal_value(a).raised

\* the _add_issue calls validate_all makes on assumption set a, in order, up
\* to its return or to the raise
validate_all_issues(a) ==
    validate_model_config(a)
    \o validate_revenue_assumptions(a)
    \o validate_cost_assumptions(a)
    \o validate_capital_structure(a)
    \o validate_terminal_value(a).issues
    \o (IF validate_all_raises(a)
        THEN <<>>
        ELSE validate_working_capital(a)
             \o validate_capex(a)
             \o validate_scenarios(a))

RECURSIVE add_issues(_, _)
\* the result after the _add_issue calls `issues`, made in order on `res`
add_issues(res, issues) ==
    IF issues = <<>>
    THEN res
    ELSE add_issues(add_issue(res, Head(issues)), Tail(issues))

-----------------------------------------------------------------------------
(* The assumption sets a validation run is started on.  A field's choices  *)
(* are sets: {} leaves the key out of the dict, {None} stores null, {<<v>>}*)
(* stores v.  One section (or one group of sections that a check reads     *)
(* together) varies at a time over a complete, valid base document.        *)

\* the dict holding, for each field of record r with a non-empty choice, its value
Dict(r) == [k \in {k \in DOMAIN r : r[k] /= {}} |-> CHOOSE v \in r[k] : TRUE]

\* the greatest i for which a revenue_growth_y{i} key is supplied
MaxGrowthYear == 6

Absent == {}

Null == {None}

Given(v) == {Some(v)}

ModelConfigs ==
    { Dict([dcf_type |-> t, complexity |-> c, projection_years |-> n,
            terminal_method |-> m]) :
        t \in {Absent, Null, Given("unlevered"), Given("levered"),
               Given("apv")},
        c \in {Absent, Given("2-stage"), Given("3-stage"), Given("lbo"),
               Given("4-stage")},
        n \in {Absent, Given(0), Given(2), Given(3), Given(5), Given(10),
               Given(15), Given(16)},
        m \in {Given("both")} }

TerminalMethods ==
    {Absent, Null, Given("perpetuity"), Given("exit_multiple"), Given("both"),
     Given("gordon")}

BaseModelConfig ==
    Dict([dcf_type |-> Given("unlevered"), complexity |-> Given("2-stage"),
          projection_years |-> Given(5), terminal_method |-> Given("both")])

\* the revenue_growth_y{i} keys: years 1..3 absent, in range or out of range,
\* later years absent or out of range
GrowthChoices(i) ==
    IF i <= 3 THEN {Absent, Given(10), Given(60)} ELSE {Absent, Given(-30)}

GrowthDicts ==
    { [k \in { "revenue_growth_y" \o ToString(i) :
                 i \in {j \in 1..MaxGrowthYear : g[j] /= Absent} } |->
         LET i == CHOOSE j \in 1..MaxGrowthYear :
                     k = "revenue_growth_y" \o ToString(j)
         IN  CHOOSE v \in g[i] : TRUE] :
        g \in { h \in [1..MaxGrowthYear -> {Absent, Given(10), Given(60), Given(-30)}] :
                  \A i \in 1..MaxGrowthYear : h[i] \in GrowthChoices(i) } }

\* the union of two dicts with disjoint keys
Merge(d, e) ==
    [k \in DOMAIN d \cup DOMAIN e |-> IF k \in DOMAIN d THEN d[k] ELSE e[k]]

Revenues ==
    { Merge(g, Dict([terminal_growth_rate |-> t])) :
        g \in GrowthDicts,
        t \in {Absent, Null, Given(2), Given(4), Given(5)} }

BaseRevenue ==
    Merge([k \in {"revenue_growth_y" \o ToString(i) : i \in 1..5} |-> Some(10)],
          Dict([terminal_growth_rate |-> Given(2)]))

Costs ==
    { Dict([gross_margin_target |-> g, opex_pct_revenue |-> o]) :
        g \in {Absent, Null, Given(2), Given(5), Given(40), Given(95), Given(99)},
        o \in {Absent, Null, Given(30)} }

BaseCosts ==
    Dict([gross_margin_target |-> Given(40), opex_pct_revenue |-> Given(30)])

CapitalStructures ==
    { Dict([risk_free_rate |-> rf, equity_risk_premium |-> erp, beta |-> b,
            target_debt_to_equity |-> de, cost_of_debt |-> cod,
            tax_rate |-> tax]) :
        rf \in {Absent, Given(-5), Given(0), Given(4), Given(20)},
        erp \in {Absent, Given(5)},
        b \in {Absent, Null, Given(100), Given(110), Given(500)},
        de \in {Absent, Null, Given(0), Given(50)},
        cod \in {Absent, Null, Given(6), Given(30)},
        tax \in {Absent, Given(25), Given(90)} }

\* beta at and next to the bounds 0.3 and 3.0
BetaAroundBounds == {29, 30, 300, 301}

BaseCapitalStructure ==
    Dict([risk_free_rate |-> Given(4), equity_risk_premium |-> Given(5),
          beta |-> Given(110), target_debt_to_equity |-> Given(50),
          cost_of_debt |-> Given(6), tax_rate |-> Given(25)])

TerminalValues ==
    { Dict([perpetuity_growth_rate |-> pg, exit_multiple |-> em]) :
        pg \in {Absent, Null, Given(-1), Given(3), Given(10)},
        em \in {Absent, Given(200), Given(1000), Given(2500)} }

BaseTerminalValue ==
    Dict([perpetuity_growth_rate |-> Given(3), exit_multiple |-> Given(1000)])

WorkingCapitals ==
    { Dict([dso_days |-> dso, dio_days |-> dio, dpo_days |-> dpo]) :
        dso \in {Absent, Given(1500), Given(4500), Given(12100)},
        dio \in {Absent, Given(-100), Given(6000)},
        dpo \in {Absent, Null, Given(1400), Given(3000)} }

BaseWorkingCapital ==
    Dict([dso_days |-> Given(4500), dio_days |-> Given(6000),
          dpo_days |-> Given(3000)])

Capexes ==
    { Dict([capex_pct_revenue |-> c, maintenance_capex |-> m]) :
        c \in {Absent, Null, Given(0), Given(5), Given(30)},
        m \in {Absent, Given(2)} }

BaseCapex == Dict([capex_pct_revenue |-> Given(5)])

Scenarios ==
    { [k \in ks |-> Some(1)] : ks \in SUBSET {"base", "bull", "bear", "custom"} }

BaseAssumptions ==
    [model_config |-> BaseModelConfig, revenue |-> BaseRevenue,
     costs |-> BaseCosts, capital_structure |-> BaseCapitalStructure,
     terminal_value |-> BaseTerminalValue,
     working_capital |-> BaseWorkingCapital, capex |-> BaseCapex]

\* per section, a variant on which its check records something
FaultySections ==
    [model_config |->
        {Dict([dcf_type |-> Given("apv"), complexity |-> Given("2-stage"),
               projection_years |-> Given(16),
               terminal_method |-> Given("both")])},
     revenue |-> {Merge(BaseRevenue, Dict([revenue_growth_y6 |-> Given(60)]))},
     costs |-> {Dict([gross_margin_target |-> Given(99)])},
     capital_structure |->
        {Dict([risk_free_rate |-> Given(4), equity_risk_premium |-> Given(5),
               beta |-> Given(500), tax_rate |-> Given(90)])},
     terminal_value |->
        {Dict([perpetuity_growth_rate |-> Given(30),
               exit_multiple |-> Given(1000)])},
     working_capital |-> Absent,
     capex |-> Absent,
     scenarios |-> {Dict([base |-> Given(1)])}]

\* every document whose sections are each the base one or the faulty one
FaultyAssumptions ==
    { Dict([c \in DOMAIN FaultySections |->
              IF f[c] THEN FaultySections[c]
              ELSE IF c \in DOMAIN BaseAssumptions THEN {BaseAssumptions[c]}
              ELSE Absent]) :
        f \in [DOMAIN FaultySections -> BOOLEAN] }

\* document `a` without its `category` section
Without(a, category) == [c \in DOMAIN a \ {category} |-> a[c]]

\* document `a` with section `category` set to dict d
With(a, category, d) ==
    [c \in DOMAIN a \cup {category} |-> IF c = category THEN d ELSE a[c]]

AssumptionSets ==
    { With(With(BaseAssumptions, "model_config", mc), "revenue", r) :
        mc \in ModelConfigs, r \in {BaseRevenue} }
    \cup
    { With(With(BaseAssumptions, "model_config",
                Merge(Dict([projection_years |-> n]),
                      Dict([dcf_type |-> Given("unlevered"),
                            complexity |-> Given("2-stage"),
                            terminal_method |-> Given("both")]))),
           "revenue", r) :
        n \in {Absent, Given(0), Given(2), Given(3), Given(4), Given(5),
               Given(10)},
        r \in Revenues }
    \cup
    { With(BaseAssumptions, "costs", c) : c \in Costs }
    \cup
    { With(With(With(BaseAssumptions, "model_config",
                     Merge(Dict([dcf_type |-> t, terminal_method |-> m]),
                           Dict([complexity |-> Given("2-stage"),
                                 projection_years |-> Given(5)]))),
                "capital_structure", cap),
           "terminal_value", Dict([perpetuity_growth_rate |-> pg,
                                   exit_multiple |-> Given(1000)])) :
        t \in {Absent, Given("unlevered"), Given("levered")},
        m \in {Given("perpetuity")},
        cap \in CapitalStructures,
        pg \in {Given(3), Given(10)} }
    \cup
    { With(With(BaseAssumptions, "model_config",
                Merge(Dict([terminal_method |-> m]),
                      Dict([dcf_type |-> Given("unlevered"),
                            complexity |-> Given("2-stage"),
                            projection_years |-> Given(5)]))),
           "terminal_value", tv) :
        m \in TerminalMethods, tv \in TerminalValues }
    \cup
    { With(BaseAssumptions, "capital_structure",
           [BaseCapitalStructure EXCEPT !.beta = Some(b)]) :
        b \in BetaAroundBounds }
    \cup
    { With(BaseAssumptions, "working_capital", wc) : wc \in WorkingCapitals }
    \cup
    { With(BaseAssumptions, "capex", c) : c \in Capexes }
    \cup
    { With(BaseAssumptions, "scenarios", sc) : sc \in Scenarios }
    \cup
    { Without(BaseAssumptions, c) : c \in DOMAIN BaseAssumptions }
    \cup
    { Without(Without(BaseAssumptions, c), e) :
        c \in DOMAIN BaseAssumptions, e \in DOMAIN BaseAssumptions }
    \cup
    FaultyAssumptions

-----------------------------------------------------------------------------
(* validate_all as a state machine.  A check computes the _add_issue calls *)
(* it makes, AddIssue makes them one at a time, and the next check starts  *)
(* when none is left: the states of a run are the states between two       *)
(* _add_issue calls.                                                       *)

\* the metrics calculator is not running
MetricsIdle ==
    /\ data = EmptyDict
    /\ years = <<>>
    /\ metrics = EmptyDict
    /\ mpc = "idle"
    /\ averages = EmptyDict

\* no helper of the metrics calculator is called
NoCall ==
    [fn |-> "none", value1 |-> None, value2 |-> None,
     statement |-> EmptyDict, line_item |-> "", year |-> 0]

HelpersIdle ==
    /\ call = NoCall
    /\ returned = {}

\* the parser is not running
ParserIdle == financial_data = EmptyDict

\* AssumptionValidator(assumptions)
InitValidator ==
    /\ assumptions \in AssumptionSets
    /\ result = NewValidationResult
    /\ pc = "model_config"
    /\ pending = <<>>
    /\ runs = 0
    /\ MetricsIdle
    /\ HelpersIdle
    /\ ParserIdle

\* a check that cannot raise: its calls become pending, the next check is `next`
RunCheck(at, calls, next) ==
    /\ pc = at
    /\ pending = <<>>
    /\ pending' = calls
    /\ pc' = next
    /\ UNCHANGED <<assumptions, result, runs, mvars, hvars, pvars>>

AddIssue ==
    /\ pending /= <<>>
    /\ result' = add_issue(result, Head(pending))
    /\ pending' = Tail(pending)
    /\ UNCHANGED <<assumptions, pc, runs, mvars, hvars, pvars>>

ValidateModelConfig ==
    RunCheck("model_config", validate_model_config(assumptions), "revenue")

ValidateRevenueAssumptions ==
    RunCheck("revenue", validate_revenue_assumptions(assumptions), "costs")

ValidateCostAssumptions ==
    RunCheck("costs", validate_cost_assumptions(assumptions), "capital_structure")

ValidateCapitalStructure ==
    RunCheck("capital_structure", validate_capital_structure(assumptions),
             "terminal_value")

\* an exception leaves validate_all: no later check runs, no result is returned
ValidateTerminalValue ==
    LET out == validate_terminal_value(assumptions)
    IN  RunCheck("terminal_value", out.issues,
                 IF out.raised THEN "raised" ELSE "working_capital")

ValidateWorkingCapital ==
    RunCheck("working_capital", validate_working_capital(assumptions), "capex")

ValidateCapex ==
    RunCheck("capex", validate_capex(assumptions), "scenarios")

ValidateScenarios ==
    RunCheck("scenarios", validate_scenarios(assumptions), "return")

\* return self.result
ValidateAllReturn ==
    /\ pc = "return"
    /\ pending = <<>>
    /\ pc' = "done"
    /\ runs' = runs + 1
    /\ UNCHANGED <<assumptions, result, pending, mvars, hvars, pvars>>

validate_all ==
    \/ ValidateModelConfig
    \/ ValidateRevenueAssumptions
    \/ ValidateCostAssumptions
    \/ ValidateCapitalStructure
    \/ ValidateTerminalValue
    \/ ValidateWorkingCapital
    \/ ValidateCapex
    \/ ValidateScenarios
    \/ AddIssue
    \/ ValidateAllReturn

Spec == InitValidator /\ [][validate_all]_vars

\* the validate_all invocations made on one instance
MaxRuns == 2

\* validate_all() called once more on the instance whose validate_all returned
ValidateAllAgain ==
    /\ pc = "done"
    /\ runs < MaxRuns
    /\ pc' = "model_config"
    /\ UNCHANGED <<assumptions, result, pending, runs, mvars, hvars, pvars>>

\* AssumptionValidator(assumptions) on an assumption set whose sections are
\* each sound or faulty, or one of which is missing
InitRepeated ==
    /\ assumptions \in
          FaultyAssumptions
          \cup {Without(BaseAssumptions, c) : c \in DOMAIN BaseAssumptions}
    /\ result = NewValidationResult
    /\ pc = "model_config"
    /\ pending = <<>>
    /\ runs = 0
    /\ MetricsIdle
    /\ HelpersIdle
    /\ ParserIdle

validate_all_repeatedly ==
    \/ validate_all
    \/ ValidateAllAgain

\* an instance on which validate_all is invoked up to MaxRuns times
SpecRepeated == InitRepeated /\ [][validate_all_repeatedly]_vars

\* validate_all has returned, or has raised after making its last call
Finished == pending = <<>> /\ pc \in {"done", "raised"}

\* validate_all has returned self.result
Returned == pc = "done"

-----------------------------------------------------------------------------
(* MetricsCalculator.  Statement values are integers; computed metrics are *)
(* exact fractions [num, den] in lowest terms with den > 0.  The values    *)
(* map of a line item is the pair of its integer-keyed and its string-keyed*)
(* entries: [int |-> year -> value, str |-> year -> value].                *)

QOf(n) == [num |-> n, den |-> 1]

QAdd(a, b) == Reduce(a.num * b.den + b.num * a.den, a.den * b.den)

QSub(a, b) == Reduce(a.num * b.den - b.num * a.den, a.den * b.den)

QMul(a, b) == Reduce(a.num * b.num, a.den * b.den)

\* a / b for b /= 0
QDiv(a, b) == Reduce(a.num * b.den, a.den * b.num)

QAbs(a) == [num |-> Abs(a.num), den |-> a.den]

\* truth value of an optional metric number: None and 0 are false
QTruthy(x) == x /= None /\ Val(x).num /= 0

\* x or 0
OrZero(x) == IF QTruthy(x) THEN Val(x) ELSE QOf(0)

EmptyValues == [int |-> EmptyDict, str |-> EmptyDict]

\* _get_value: values.get(year) or values.get(str(year))
get_value(statement, line_item, year) ==
    LET values == IF line_item \in DOMAIN statement
                  THEN statement[line_item] ELSE EmptyValues
        by_int == Get(values.int, year)
        found == IF Truthy(by_int) THEN by_int ELSE Get(values.str, year)
    IN  IF found = None THEN None ELSE Some(QOf(Val(found)))

\* a variant of _safe_divide that tests `not numerator`
safe_divide_falsy_numerator(numerator, denominator) ==
    IF ~QTruthy(numerator) \/ denominator = None
    THEN None
    ELSE IF Val(denominator).num = 0
    THEN None
    ELSE Some(QDiv(Val(numerator), Val(denominator)))

\* _safe_divide
safe_divide(numerator, denominator) ==
    IF numerator = None \/ denominator = None
    THEN None
    ELSE IF Val(denominator).num = 0
    THEN None
    ELSE Some(QDiv(Val(numerator), Val(denominator)))

\* _calc_growth
calc_growth(current, prior) ==
    IF current = None \/ prior = None
    THEN None
    ELSE IF Val(prior).num = 0
    THEN None
    ELSE Some(QDiv(QSub(Val(current), Val(prior)), QAbs(Val(prior))))

\* _avg: `value1 or value2` when one of them is None
avg(value1, value2) ==
    IF value1 = None \/ value2 = None
    THEN (IF QTruthy(value1) THEN value1 ELSE value2)
    ELSE Some(QDiv(QAdd(Val(value1), Val(value2)), QOf(2)))

\* sorted(seq, reverse=True)
SortedDescending(seq) ==
    [i \in 1..Len(seq) |->
        CHOOSE y \in {seq[j] : j \in 1..Len(seq)} :
            /\ Cardinality({j \in 1..Len(seq) : seq[j] > y}) < i
            /\ i <= Cardinality({j \in 1..Len(seq) : seq[j] >= y})]

\* the dict of the assignments d[k] = v made for some keys only: options[k]
\* is {v} for a key that is assigned v, {} for a key that is not assigned
Assigned(options) ==
    [k \in {j \in DOMAIN options : options[j] /= {}} |->
        CHOOSE v \in options[k] : TRUE]

\* HistoricalMetrics(years=self.years)
NewHistoricalMetrics(ys) ==
    [years |-> ys,
     revenue_growth |-> EmptyDict, gross_profit_growth |-> EmptyDict,
     ebit_growth |-> EmptyDict, net_income_growth |-> EmptyDict,
     gross_margin |-> EmptyDict, ebit_margin |-> EmptyDict,
     ebitda_margin |-> EmptyDict, net_margin |-> EmptyDict,
     roa |-> EmptyDict, roe |-> EmptyDict, roic |-> EmptyDict,
     dso |-> EmptyDict, dio |-> EmptyDict, dpo |-> EmptyDict,
     cash_conversion_cycle |-> EmptyDict,
     capex_to_revenue |-> EmptyDict, capex_to_da |-> EmptyDict,
     da_to_revenue |-> EmptyDict,
     debt_to_equity |-> EmptyDict, debt_to_ebitda |-> EmptyDict,
     interest_coverage |-> EmptyDict,
     effective_tax_rate |-> EmptyDict]

\* self.income, self.balance, self.cashflow: parsed_data.get(name, {})
Income(d) == GetDefault(d, "income_statement", EmptyDict)

Balance(d) == GetDefault(d, "balance_sheet", EmptyDict)

Cashflow(d) == GetDefault(d, "cash_flow_statement", EmptyDict)

\* the elements of a sequence
Range(seq) == {seq[i] : i \in 1..Len(seq)}

\* a variant of PriorYear that takes the calendar year before `year`
calendar_prior_year(ys, year) ==
    IF \E z \in {ys[i] : i \in 1..Len(ys)} : z < year
    THEN Some(year - 1)
    ELSE None

\* self.years[i + 1] for the (first) position i of year in self.years, None
\* at the last position
PriorYear(ys, year) ==
    LET i == CHOOSE j \in 1..Len(ys) :
                 ys[j] = year /\ \A k \in 1..(j - 1) : ys[k] /= year
    IN  IF i + 1 <= Len(ys) THEN Some(ys[i + 1]) ELSE None

\* the growth of one income line item for `year` (not the last of self.years)
growth_of(d, ys, line_item, year) ==
    calc_growth(get_value(Income(d), line_item, year),
                get_value(Income(d), line_item, Val(PriorYear(ys, year))))

\* for i, year in enumerate(self.years[:-1])
AllButLast(ys) == {ys[i] : i \in 1..(Len(ys) - 1)}

\* calculate_growth_metrics: the four growth dicts
calculate_growth_metrics(d, ys, m) ==
    LET growth(line_item) ==
            [year \in AllButLast(ys) |-> growth_of(d, ys, line_item, year)]
    IN  [m EXCEPT !.revenue_growth = growth("revenue"),
                  !.gross_profit_growth = growth("gross_profit"),
                  !.ebit_growth = growth("operating_income"),
                  !.net_income_growth = growth("net_income")]

\* ebit + abs(da)
Ebitda(ebit, da) == QAdd(Val(ebit), QAbs(Val(da)))

\* calculate_margin_metrics
calculate_margin_metrics(d, ys, m) ==
    LET revenue(year) == get_value(Income(d), "revenue", year)
        ebit(year) == get_value(Income(d), "operating_income", year)
        da(year) == get_value(Cashflow(d), "depreciation", year)
        margin(line_item) ==
            [year \in Range(ys) |->
                safe_divide(get_value(Income(d), line_item, year),
                            revenue(year))]
        ebitda_margin(year) ==
            IF ebit(year) /= None /\ da(year) /= None
            THEN {safe_divide(Some(Ebitda(ebit(year), da(year))),
                              revenue(year))}
            ELSE {}
    IN  [m EXCEPT !.gross_margin = margin("gross_profit"),
                  !.ebit_margin = margin("operating_income"),
                  !.ebitda_margin = Assigned([year \in Range(ys) |-> ebitda_margin(year)]),
                  !.net_margin = margin("net_income")]

\* pretax and pretax > 0
Positive(x) == QTruthy(x) /\ Val(x).num > 0

\* the 0.25 that stands in for the effective tax rate
DefaultTaxRate == Reduce(25, 100)

\* (long_term_debt or 0) + (short_term_debt or 0)
DebtOrZero(d, year) ==
    QAdd(OrZero(get_value(Balance(d), "long_term_debt", year)),
         OrZero(get_value(Balance(d), "short_term_debt", year)))

\* a variant of ic_prior_of in which the oldest year has no prior capital
ic_prior_zero_without_prior(prior_capital, invested_capital) ==
    IF prior_capital /= None THEN Val(prior_capital) ELSE QOf(0)

\* ic_prior: the invested capital of prior_year `if prior_year else
\* invested_capital`; prior_capital is None when there is no prior year
ic_prior_of(prior_capital, invested_capital) ==
    IF prior_capital /= None THEN Val(prior_capital) ELSE invested_capital

\* calculate_return_metrics
calculate_return_metrics(d, ys, m) ==
    LET prior_year(year) == PriorYear(ys, year)
        at_prior(line_item, year) ==
            IF prior_year(year) /= None
            THEN get_value(Balance(d), line_item, Val(prior_year(year)))
            ELSE None
        net_income(year) == get_value(Income(d), "net_income", year)
        ebit(year) == get_value(Income(d), "operating_income", year)
        tax_rate(year) == get_value(Income(d), "income_tax", year)
        pretax(year) == get_value(Income(d), "pretax_income", year)
        eff_tax(year) ==
            IF Positive(pretax(year))
            THEN safe_divide(tax_rate(year), pretax(year))
            ELSE Some(DefaultTaxRate)
        return_on(line_item) ==
            [year \in Range(ys) |->
                safe_divide(net_income(year),
                            avg(get_value(Balance(d), line_item, year),
                                at_prior(line_item, year)))]
        equity(year) == get_value(Balance(d), "total_equity", year)
        nopat(year) ==
            QMul(Val(ebit(year)), QSub(QOf(1), Val(eff_tax(year))))
        invested_capital(year) ==
            QSub(QAdd(DebtOrZero(d, year), OrZero(equity(year))),
                 OrZero(get_value(Balance(d), "cash", year)))
        prior_capital(year) ==
            IF prior_year(year) /= None
            THEN Some(QSub(QAdd(DebtOrZero(d, Val(prior_year(year))),
                                OrZero(at_prior("total_equity", year))),
                           OrZero(at_prior("cash", year))))
            ELSE None
        ic_prior(year) ==
            ic_prior_of(prior_capital(year), invested_capital(year))
        roic(year) ==
            IF ebit(year) /= None /\ eff_tax(year) /= None
            THEN {safe_divide(Some(nopat(year)),
                              avg(Some(invested_capital(year)),
                                  Some(ic_prior(year))))}
            ELSE {}
    IN  [m EXCEPT !.roa = return_on("total_assets"),
                  !.roe = return_on("total_equity"),
                  !.roic = Assigned([year \in Range(ys) |-> roic(year)])]

\* the 365 days of (balance / flow) * 365
DaysInYear == QOf(365)

\* calculate_working_capital_metrics
calculate_working_capital_metrics(d, ys, m) ==
    LET revenue(year) == get_value(Income(d), "revenue", year)
        cogs(year) == get_value(Income(d), "cost_of_revenue", year)
        ar(year) == get_value(Balance(d), "accounts_receivable", year)
        dso(year) ==
            IF ar(year) /= None /\ QTruthy(revenue(year))
            THEN {Some(QMul(QDiv(Val(ar(year)), Val(revenue(year))),
                            DaysInYear))}
            ELSE {}
        days_of_cogs(line_item, year) ==
            LET balance == get_value(Balance(d), line_item, year)
            IN  IF balance /= None /\ QTruthy(cogs(year))
                THEN {Some(QMul(QDiv(Val(balance), QAbs(Val(cogs(year)))),
                                DaysInYear))}
                ELSE {}
        dio(year) == days_of_cogs("inventory", year)
        dpo(year) == days_of_cogs("accounts_payable", year)
        dso_dict == Assigned([year \in Range(ys) |-> dso(year)])
        dio_dict == Assigned([year \in Range(ys) |-> dio(year)])
        dpo_dict == Assigned([year \in Range(ys) |-> dpo(year)])
        ccc(year) ==
            IF /\ Get(dso_dict, year) /= None
               /\ Get(dio_dict, year) /= None
               /\ Get(dpo_dict, year) /= None
            THEN {Some(QSub(QAdd(Val(dso_dict[year]), Val(dio_dict[year])),
                            Val(dpo_dict[year])))}
            ELSE {}
    IN  [m EXCEPT !.dso = dso_dict,
                  !.dio = dio_dict,
                  !.dpo = dpo_dict,
                  !.cash_conversion_cycle = Assigned([year \in Range(ys) |-> ccc(year)])]

\* abs(x) of a value that is not None
SomeAbs(x) == Some(QAbs(Val(x)))

\* calculate_capital_intensity
calculate_capital_intensity(d, ys, m) ==
    LET revenue(year) == get_value(Income(d), "revenue", year)
        capex(year) == get_value(Cashflow(d), "capex", year)
        da(year) == get_value(Cashflow(d), "depreciation", year)
        capex_to_revenue(year) ==
            IF capex(year) /= None
            THEN {safe_divide(SomeAbs(capex(year)), revenue(year))}
            ELSE {}
        capex_to_da(year) ==
            IF capex(year) /= None /\ da(year) /= None
            THEN {safe_divide(SomeAbs(capex(year)), SomeAbs(da(year)))}
            ELSE {}
        da_to_revenue(year) ==
            IF da(year) /= None
            THEN {safe_divide(SomeAbs(da(year)), revenue(year))}
            ELSE {}
    IN  [m EXCEPT !.capex_to_revenue = Assigned([year \in Range(ys) |-> capex_to_revenue(year)]),
                  !.capex_to_da = Assigned([year \in Range(ys) |-> capex_to_da(year)]),
                  !.da_to_revenue = Assigned([year \in Range(ys) |-> da_to_revenue(year)])]

\* calculate_leverage_metrics
calculate_leverage_metrics(d, ys, m) ==
    LET equity(year) == get_value(Balance(d), "total_equity", year)
        total_debt(year) == Some(DebtOrZero(d, year))
        ebit(year) == get_value(Income(d), "operating_income", year)
        da(year) == get_value(Cashflow(d), "depreciation", year)
        interest(year) == get_value(Income(d), "interest_expense", year)
        debt_to_ebitda(year) ==
            IF ebit(year) /= None /\ da(year) /= None
            THEN {safe_divide(total_debt(year),
                              Some(Ebitda(ebit(year), da(year))))}
            ELSE {}
        interest_coverage(year) ==
            IF Positive(interest(year))
            THEN {safe_divide(ebit(year), interest(year))}
            ELSE {}
    IN  [m EXCEPT !.debt_to_equity =
                      [year \in Range(ys) |->
                          safe_divide(total_debt(year), equity(year))],
                  !.debt_to_ebitda = Assigned([year \in Range(ys) |-> debt_to_ebitda(year)]),
                  !.interest_coverage =
                      Assigned([year \in Range(ys) |-> interest_coverage(year)])]

\* calculate_tax_rate
calculate_tax_rate(d, ys, m) ==
    LET tax_expense(year) == get_value(Income(d), "income_tax", year)
        pretax_income(year) == get_value(Income(d), "pretax_income", year)
        effective_tax_rate(year) ==
            IF Positive(pretax_income(year))
            THEN {safe_divide(tax_expense(year), pretax_income(year))}
            ELSE {}
    IN  [m EXCEPT !.effective_tax_rate =
                      Assigned([year \in Range(ys) |-> effective_tax_rate(year)])]

\* sum(valid_values) for the values of the dict under `keys`
RECURSIVE sum_of(_, _)
sum_of(values, keys) ==
    IF keys = {}
    THEN QOf(0)
    ELSE LET k == CHOOSE x \in keys : TRUE
         IN  QAdd(Val(values[k]), sum_of(values, keys \ {k}))

\* a variant of calc_avg that divides by the number of years
calc_avg_over_all_years(values) ==
    LET valid == {k \in DOMAIN values : values[k] /= None}
    IN  IF valid /= {}
        THEN Some(QDiv(sum_of(values, valid),
                       QOf(Cardinality(DOMAIN values))))
        ELSE None

\* calc_avg: sum(valid_values) / len(valid_values) if valid_values else None
calc_avg(values) ==
    LET valid == {k \in DOMAIN values : values[k] /= None}
    IN  IF valid /= {}
        THEN Some(QDiv(sum_of(values, valid), QOf(Cardinality(valid))))
        ELSE None

\* get_averages
get_averages(m) ==
    [avg_revenue_growth |-> calc_avg(m.revenue_growth),
     avg_gross_margin |-> calc_avg(m.gross_margin),
     avg_ebit_margin |-> calc_avg(m.ebit_margin),
     avg_ebitda_margin |-> calc_avg(m.ebitda_margin),
     avg_net_margin |-> calc_avg(m.net_margin),
     avg_roa |-> calc_avg(m.roa),
     avg_roe |-> calc_avg(m.roe),
     avg_roic |-> calc_avg(m.roic),
     avg_dso |-> calc_avg(m.dso),
     avg_dio |-> calc_avg(m.dio),
     avg_dpo |-> calc_avg(m.dpo),
     avg_capex_to_revenue |-> calc_avg(m.capex_to_revenue),
     avg_effective_tax_rate |-> calc_avg(m.effective_tax_rate)]

-----------------------------------------------------------------------------
(* Statement sets given to the calculator.  A table gives, for each line   *)
(* item and fiscal year, a cell: no entry, or a value stored under the     *)
(* integer year (as the parser keeps it in memory) or under the year as a  *)
(* string (as a JSON file holds it).  One line item varies over all years, *)
(* or the line items of one group of formulas vary in one year, over a     *)
(* complete base table; the order of the years list varies with revenue.   *)

NumYears == 3

FiscalYears == {2020 + i : i \in 1..NumYears}

IncomeItems ==
    {"revenue", "cost_of_revenue", "gross_profit", "operating_income",
     "interest_expense", "pretax_income", "income_tax", "net_income"}

BalanceItems ==
    {"total_assets", "total_equity", "long_term_debt", "short_term_debt",
     "cash", "accounts_receivable", "inventory", "accounts_payable"}

CashflowItems == {"depreciation", "capex"}

LineItems == IncomeItems \cup BalanceItems \cup CashflowItems

NoEntry == [kind |-> "none", v |-> 0]

IntKey(v) == [kind |-> "int", v |-> v]

StrKey(v) == [kind |-> "str", v |-> v]

\* the "values" map of a line item whose cells are `cells`
ValuesOf(cells) ==
    [int |-> [y \in {x \in DOMAIN cells : cells[x].kind = "int"} |->
                 Some(cells[y].v)],
     str |-> [y \in {x \in DOMAIN cells : cells[x].kind = "str"} |->
                 Some(cells[y].v)]]

\* the parsed data of a table and a years list
StatementSet(table, year_list) ==
    [years |-> year_list,
     income_statement |-> [item \in IncomeItems |-> ValuesOf(table[item])],
     balance_sheet |-> [item \in BalanceItems |-> ValuesOf(table[item])],
     cash_flow_statement |->
         [item \in CashflowItems |-> ValuesOf(table[item])]]

BaseValue ==
    [revenue |-> 40, cost_of_revenue |-> 24, gross_profit |-> 16,
     operating_income |-> 8, interest_expense |-> 1, pretax_income |-> 7,
     income_tax |-> 2, net_income |-> 5,
     total_assets |-> 100, total_equity |-> 50, long_term_debt |-> 20,
     short_term_debt |-> 4, cash |-> 10, accounts_receivable |-> 6,
     inventory |-> 8, accounts_payable |-> 5,
     depreciation |-> 2, capex |-> -3]

\* every line item reported for every year, growing from year to year
BaseTable ==
    [item \in LineItems |->
        [y \in FiscalYears |-> StrKey(BaseValue[item] * (y - 2018))]]

SeriesCells == {NoEntry, IntKey(0), StrKey(0), IntKey(120), StrKey(-30)}

GroupCells == {NoEntry, StrKey(0), StrKey(90)}

Descending == [i \in 1..NumYears |-> 2020 + NumYears + 1 - i]

Ascending == [i \in 1..NumYears |-> 2020 + i]

\* the years in the order the input lists them: newest first, oldest first,
\* out of order, with a year left out, a single year, none
YearLists ==
    {Descending, Ascending, Tail(Ascending) \o <<Head(Ascending)>>,
     <<Head(Ascending)>> \o Tail(Tail(Ascending)), <<Head(Descending)>>,
     <<>>}

\* the line items whose value of the year before enters a formula
SeriesItems ==
    {"revenue", "gross_profit", "operating_income", "net_income",
     "total_assets", "total_equity", "long_term_debt", "cash"}

\* the line item `item` takes `cells` over the years
SeriesTable(item, cells) == [BaseTable EXCEPT ![item] = cells]

\* the line items of the leverage, margin and capital intensity, and working
\* capital formulas
FormulaGroups ==
    {{"total_equity", "long_term_debt", "short_term_debt",
      "operating_income", "depreciation", "interest_expense"},
     {"revenue", "gross_profit", "operating_income", "net_income",
      "depreciation", "capex"},
     {"revenue", "cost_of_revenue", "accounts_receivable", "inventory",
      "accounts_payable"}}

\* the line items of invested capital and of the tax rate
InvestedCapitalGroup ==
    {"operating_income", "income_tax", "pretax_income", "long_term_debt",
     "short_term_debt", "cash", "total_equity"}

\* the line items of `group` take `cells` in the second newest year
GroupTable(group, cells) ==
    [item \in LineItems |->
        IF item \in group
        THEN [BaseTable[item] EXCEPT ![Descending[2]] = cells[item]]
        ELSE BaseTable[item]]

\* the line items of the working capital formulas
WorkingCapitalGroup ==
    {"revenue", "cost_of_revenue", "accounts_receivable", "inventory",
     "accounts_payable"}

\* cells keyed by the integer year, as the parser keeps them in memory
IntegerKeyCells == {NoEntry, IntKey(0), IntKey(90)}

\* parsed data without some of its keys
PartialStatementSet(keys) ==
    LET full == StatementSet(BaseTable, Descending)
    IN  [k \in keys |-> full[k]]

StatementKeys ==
    {"years", "income_statement", "balance_sheet", "cash_flow_statement"}

\* data is one of the statement sets
IsStatementSet(d) ==
    \/ \E item \in SeriesItems, cells \in [FiscalYears -> SeriesCells] :
           d = StatementSet(SeriesTable(item, cells), Descending)
    \/ \E cells \in [FiscalYears -> SeriesCells], year_list \in YearLists :
           d = StatementSet(SeriesTable("revenue", cells), year_list)
    \/ \E group \in FormulaGroups : \E cells \in [group -> GroupCells] :
           d = StatementSet(GroupTable(group, cells), Descending)
    \/ \E cells \in [InvestedCapitalGroup -> {NoEntry, StrKey(90)}] :
           d = StatementSet(GroupTable(InvestedCapitalGroup, cells),
                            Descending)
    \/ \E cells \in [WorkingCapitalGroup -> IntegerKeyCells] :
           d = StatementSet(GroupTable(WorkingCapitalGroup, cells),
                            Descending)
    \/ \E keys \in SUBSET StatementKeys : d = PartialStatementSet(keys)

-----------------------------------------------------------------------------
(* calculate_all as a state machine: one step per calculation, in the      *)
(* order of the calls.                                                     *)

\* the validator is not running
ValidatorIdle ==
    /\ assumptions = EmptyDict
    /\ result = NewValidationResult
    /\ pc = "idle"
    /\ pending = <<>>
    /\ runs = 0

\* MetricsCalculator(parsed_data)
InitMetrics ==
    /\ IsStatementSet(data)
    /\ years = SortedDescending(GetDefault(data, "years", <<>>))
    /\ metrics = EmptyDict
    /\ mpc = "start"
    /\ averages = EmptyDict
    /\ ValidatorIdle
    /\ HelpersIdle
    /\ ParserIdle

\* one calculation of calculate_all
Calculate(at, after, next) ==
    /\ mpc = at
    /\ metrics' = after
    /\ mpc' = next
    /\ UNCHANGED <<data, years, averages, vvars, hvars, pvars>>

\* metrics = HistoricalMetrics(years=self.years)
CalculateAllStart ==
    Calculate("start", NewHistoricalMetrics(years), "growth")

CalculateGrowthMetrics ==
    Calculate("growth", calculate_growth_metrics(data, years, metrics),
              "margin")

CalculateMarginMetrics ==
    Calculate("margin", calculate_margin_metrics(data, years, metrics),
              "return")

CalculateReturnMetrics ==
    Calculate("return", calculate_return_metrics(data, years, metrics),
              "working_capital")

CalculateWorkingCapitalMetrics ==
    Calculate("working_capital",
              calculate_working_capital_metrics(data, years, metrics),
              "capital_intensity")

CalculateCapitalIntensity ==
    Calculate("capital_intensity",
              calculate_capital_intensity(data, years, metrics), "leverage")

CalculateLeverageMetrics ==
    Calculate("leverage", calculate_leverage_metrics(data, years, metrics),
              "tax_rate")

\* the last calculation; calculate_all returns metrics
CalculateTaxRate ==
    Calculate("tax_rate", calculate_tax_rate(data, years, metrics), "done")

calculate_all ==
    \/ CalculateAllStart
    \/ CalculateGrowthMetrics
    \/ CalculateMarginMetrics
    \/ CalculateReturnMetrics
    \/ CalculateWorkingCapitalMetrics
    \/ CalculateCapitalIntensity
    \/ CalculateLeverageMetrics
    \/ CalculateTaxRate

SpecMetrics == InitMetrics /\ [][calculate_all]_vars

\* calculate_all has returned metrics
Calculated == mpc = "done"

-----------------------------------------------------------------------------
(* get_averages called on the metrics of a calculation.  One metric map    *)
(* varies over the maps that give each year a number, an undefined value   *)
(* or no entry; the other maps are all empty, all undefined or all         *)
(* defined.                                                                *)

\* what a metric map holds for a year: no entry, None, or a number
MetricOptions ==
    {Absent, Null, Given(QOf(0)), Given(Reduce(1, 2)), Given(QOf(-2))}

\* the metric maps over the fiscal years
MetricMaps == {Assigned(options) : options \in [FiscalYears -> MetricOptions]}

\* the maps the metrics other than the varied one hold
OtherMaps ==
    {EmptyDict, [y \in FiscalYears |-> None],
     [y \in FiscalYears |-> Some(Reduce(1, 2))]}

\* the names of the metric maps of HistoricalMetrics
MetricNames == DOMAIN NewHistoricalMetrics(Descending) \ {"years"}

\* the HistoricalMetrics calculate_all returned
InitAverages ==
    /\ \E varied \in MetricNames, map \in MetricMaps, other \in OtherMaps :
           metrics =
               [f \in DOMAIN NewHistoricalMetrics(Descending) |->
                   IF f = "years" THEN Descending
                   ELSE IF f = varied THEN map
                   ELSE other]
    /\ data = EmptyDict
    /\ years = Descending
    /\ mpc = "done"
    /\ averages = EmptyDict
    /\ ValidatorIdle
    /\ HelpersIdle
    /\ ParserIdle

\* main: calculator.get_averages(metrics) on the metrics calculate_all
\* returned
GetAverages ==
    /\ mpc = "done"
    /\ averages' = get_averages(metrics)
    /\ mpc' = "averaged"
    /\ UNCHANGED <<data, years, metrics, vvars, hvars, pvars>>

SpecAverages == InitAverages /\ [][GetAverages]_vars

\* get_averages has returned
Averaged == mpc = "averaged"

-----------------------------------------------------------------------------
(* The helpers _safe_divide, _avg and _get_value called on their own: the  *)
(* arguments of one call are chosen at the start, the call returns in one  *)
(* step.                                                                   *)

MaxHalves == 4

\* optional numbers: None and the halves -MaxHalves/2 .. MaxHalves/2
Operands ==
    {None} \cup {Some(Reduce(n, 2)) : n \in (-MaxHalves)..MaxHalves}

\* statements that hold the line item revenue, or no line item
AccessedStatements ==
    {EmptyDict}
    \cup {[item \in {"revenue"} |-> ValuesOf(cells)] :
             cells \in [FiscalYears -> SeriesCells]}

InitHelpers ==
    /\ \/ \E fn \in {"_safe_divide", "_avg"}, v1 \in Operands,
             v2 \in Operands :
              call = [NoCall EXCEPT !.fn = fn, !.value1 = v1, !.value2 = v2]
       \/ \E statement \in AccessedStatements,
             line_item \in {"revenue", "net_income"}, year \in FiscalYears :
              call = [NoCall EXCEPT !.fn = "_get_value",
                                    !.statement = statement,
                                    !.line_item = line_item,
                                    !.year = year]
    /\ returned = {}
    /\ ValidatorIdle
    /\ MetricsIdle
    /\ ParserIdle

\* the call of the helper `fn` returns `value`
Return(fn, value) ==
    /\ call.fn = fn
    /\ returned = {}
    /\ returned' = {value}
    /\ UNCHANGED <<call, vvars, mvars, pvars>>

SafeDivide == Return("_safe_divide", safe_divide(call.value1, call.value2))

Avg == Return("_avg", avg(call.value1, call.value2))

GetValue ==
    Return("_get_value", get_value(call.statement, call.line_item, call.year))

helper_call ==
    \/ SafeDivide
    \/ Avg
    \/ GetValue

SpecHelpers == InitHelpers /\ [][helper_call]_vars

\* the call of the helper `fn` has returned
HasReturned(fn) == call.fn = fn /\ returned /= {}

\* what the call returned
ReturnValue == CHOOSE value \in returned : TRUE

-----------------------------------------------------------------------------
(* FinancialStatementParser.  financial_data maps a statement type to its  *)
(* line items, and a line item to the list of its raw entries.  A raw      *)
(* entry has the characters of its "end" date string (none when the key is *)
(* missing or the string is empty), its optional "value" and the rank of   *)
(* its "filed" string in the order of strings, 0 for a missing one.        *)

INCOME_MAPPINGS ==
    {"revenue", "cost_of_revenue", "gross_profit", "rd_expense",
     "sga_expense", "operating_expenses", "operating_income",
     "interest_expense", "pretax_income", "income_tax", "net_income"}

BALANCE_MAPPINGS ==
    {"cash", "short_term_investments", "accounts_receivable", "inventory",
     "total_current_assets", "ppe_net", "intangibles", "goodwill",
     "total_assets", "accounts_payable", "short_term_debt",
     "total_current_liabilities", "long_term_debt", "total_liabilities",
     "common_stock", "retained_earnings", "treasury_stock", "total_equity"}

CASHFLOW_MAPPINGS ==
    {"net_income", "depreciation", "stock_compensation",
     "cash_from_operations", "capex", "acquisitions", "cash_from_investing",
     "debt_issued", "debt_repaid", "stock_repurchased", "dividends_paid",
     "cash_from_financing"}

\* the line items to_model_format puts into each statement
EmittedIncome == INCOME_MAPPINGS

EmittedBalance ==
    BALANCE_MAPPINGS \ {"short_term_investments", "common_stock",
                        "treasury_stock"}

EmittedCashflow ==
    CASHFLOW_MAPPINGS \ {"net_income", "debt_issued", "debt_repaid",
                         "stock_repurchased"}

DigitCharacters == <<"0", "1", "2", "3", "4", "5", "6", "7", "8", "9">>

IsDigit(c) == \E i \in 1..10 : DigitCharacters[i] = c

DigitValue(c) == (CHOOSE i \in 1..10 : DigitCharacters[i] = c) - 1

\* the number written by a sequence of digits
RECURSIVE decimal(_)
decimal(chars) ==
    IF chars = <<>>
    THEN 0
    ELSE 10 * decimal(SubSeq(chars, 1, Len(chars) - 1))
         + DigitValue(chars[Len(chars)])

\* _extract_year: int(date_str[:4]), None for a missing or empty string and
\* when int raises ValueError
extract_year(date_str) ==
    LET prefix == SubSeq(date_str, 1, Min(4, Len(date_str)))
    IN  IF date_str = <<>>
        THEN None
        ELSE IF \E i \in 1..Len(prefix) : ~IsDigit(prefix[i])
        THEN None
        ELSE Some(decimal(prefix))

\* `if year`: the year is neither None nor 0
year_found(year) == year /= None /\ Val(year) /= 0

\* the loop of _get_values_by_year over the entries not yet read: `kept`
\* holds the value kept for each year, `filed` the "filed" rank kept with it
RECURSIVE values_by_year(_, _, _)
values_by_year(raw_values, kept, filed) ==
    IF raw_values = <<>>
    THEN kept
    ELSE LET item == Head(raw_values)
             year == extract_year(item.end)
             keep == /\ year_found(year)
                     /\ item.value /= None
                     /\ \/ Val(year) \notin DOMAIN kept
                        \/ item.filed > filed[Val(year)]
         IN  IF keep
             THEN values_by_year(
                      Tail(raw_values),
                      [y \in DOMAIN kept \cup {Val(year)} |->
                          IF y = Val(year) THEN item.value ELSE kept[y]],
                      [y \in DOMAIN filed \cup {Val(year)} |->
                          IF y = Val(year) THEN item.filed ELSE filed[y]])
             ELSE values_by_year(Tail(raw_values), kept, filed)

\* _get_values_by_year
get_values_by_year(raw_values) ==
    values_by_year(raw_values, EmptyDict, EmptyDict)

\* the values of the line items named in `mappings`, read from the raw
\* statement `statement_type`
parse_statement(fd, statement_type, mappings) ==
    LET raw == GetDefault(fd, statement_type, EmptyDict)
    IN  [attr_name \in mappings |->
            get_values_by_year(GetDefault(raw, attr_name, <<>>))]

\* parse_income_statement: gross profit is revenue - cost of revenue for the
\* years that have both and no gross profit of their own
parse_income_statement(fd) ==
    LET income == parse_statement(fd, "income_statement", INCOME_MAPPINGS)
        derived ==
            {y \in DOMAIN income["revenue"]
                   \cap DOMAIN income["cost_of_revenue"] :
                 y \notin DOMAIN income["gross_profit"]}
        gross_profit ==
            [y \in DOMAIN income["gross_profit"] \cup derived |->
                IF y \in derived
                THEN Some(Val(income["revenue"][y])
                          - Val(income["cost_of_revenue"][y]))
                ELSE income["gross_profit"][y]]
    IN  [income EXCEPT !["gross_profit"] = gross_profit]

parse_balance_sheet(fd) ==
    parse_statement(fd, "balance_sheet", BALANCE_MAPPINGS)

parse_cash_flow_statement(fd) ==
    parse_statement(fd, "cash_flow", CASHFLOW_MAPPINGS)

\* the years get_available_years collects
available_years(fd) ==
    {Val(extract_year(fd[statement_type][line_item][i].end)) :
        <<statement_type, line_item, i>> \in
            {t \in UNION {
                 UNION { {<<s, l, j>> : j \in 1..Len(fd[s][l])} :
                          l \in DOMAIN fd[s] } :
                 s \in {"income_statement", "balance_sheet", "cash_flow"}
                           \cap DOMAIN fd } :
                year_found(extract_year(fd[t[1]][t[2]][t[3]].end))}}

\* a set of years as the list sorted(years, reverse=True)
sorted_reverse(year_set) ==
    [i \in 1..Cardinality(year_set) |->
        CHOOSE y \in year_set : Cardinality({z \in year_set : z > y}) = i - 1]

\* get_available_years
get_available_years(fd) == sorted_reverse(available_years(fd))

\* line_item_to_dict for the line items `emitted`: the values are kept under
\* the integer years
line_items_to_dict(statement, emitted) ==
    [item \in emitted |-> [int |-> statement[item], str |-> EmptyDict]]

\* to_model_format
to_model_format(fd) ==
    [years |-> get_available_years(fd),
     income_statement |->
         line_items_to_dict(parse_income_statement(fd), EmittedIncome),
     balance_sheet |->
         line_items_to_dict(parse_balance_sheet(fd), EmittedBalance),
     cash_flow_statement |->
         line_items_to_dict(parse_cash_flow_statement(fd), EmittedCashflow)]

\* the characters of the date string "<year>-12-31"
DateOf(year) ==
    << DigitCharacters[(year \div 1000) + 1],
       DigitCharacters[((year \div 100) % 10) + 1],
       DigitCharacters[((year \div 10) % 10) + 1],
       DigitCharacters[(year % 10) + 1] >>
    \o << "-", "1", "2", "-", "3", "1" >>

\* an "end" string that does not start with a year
UndatedEnd == << "F", "Y", "2", "3" >>

RawEntry(end, value, filed) == [end |-> end, value |-> value, filed |-> filed]

\* raw revenue entries: a value, a 0 or a null value for a fiscal year, filed
\* earlier or later
RevenueEntries ==
    {RawEntry(DateOf(y), v, f) :
        y \in FiscalYears, v \in {None, Some(0), Some(40)}, f \in {1, 2}}

\* lists of up to two raw revenue entries
RevenueLists ==
    {<<>>} \cup {<<e>> : e \in RevenueEntries}
    \cup {<<e, f>> : e \in RevenueEntries, f \in RevenueEntries}

\* a further raw entry: for the year before the fiscal years, or without a
\* readable year; with a value or a null value
FurtherEntries ==
    {RawEntry(end, v, 0) :
        end \in {DateOf(2020), UndatedEnd, <<>>}, v \in {None, Some(24)}}

\* where the further entry is reported: a line item that is emitted, one that
\* is read but not emitted, one that is not read
FurtherItems ==
    {<<"income_statement", "cost_of_revenue">>,
     <<"income_statement", "other_income">>,
     <<"balance_sheet", "total_assets">>,
     <<"balance_sheet", "common_stock">>,
     <<"cash_flow", "capex">>}

\* the raw document with the revenue entries and one further entry
RawDocument(revenue, place, entry) ==
    [statement_type \in {"income_statement", place[1]} |->
        [line_item \in (IF statement_type = "income_statement"
                        THEN {"revenue"} ELSE {})
                       \cup (IF statement_type = place[1]
                             THEN {place[2]} ELSE {}) |->
            IF statement_type = place[1] /\ line_item = place[2]
            THEN <<entry>>
            ELSE revenue]]

\* FinancialStatementParser(edgar_data)
InitParser ==
    /\ \E revenue \in RevenueLists :
           \/ financial_data = [income_statement |-> [revenue |-> revenue]]
           \/ \E place \in FurtherItems, entry \in FurtherEntries :
                  financial_data = RawDocument(revenue, place, entry)
    /\ ValidatorIdle
    /\ MetricsIdle
    /\ HelpersIdle

\* model_data = parser.to_model_format()
ToModelFormat ==
    /\ financial_data /= EmptyDict
    /\ data = EmptyDict
    /\ data' = to_model_format(financial_data)
    /\ UNCHANGED <<years, metrics, mpc, averages, vvars, hvars, pvars>>

SpecParser == InitParser /\ [][ToModelFormat]_vars

\* to_model_format has returned model_data
Parsed == financial_data /= EmptyDict /\ data /= EmptyDict

-----------------------------------------------------------------------------
(* Properties of the validator *)

IssuesOf(res, severity) ==
    SelectSeq(res.issues, LAMBDA i : i.severity = severity)

HasError(res) == IssuesOf(res, Severity.ERROR) /= <<>>

\* an issue of `severity` for category.field has been recorded
Recorded(category, field, severity) ==
    \E i \in 1..Len(result.issues) :
        /\ result.issues[i].category = category
        /\ result.issues[i].field = field
        /\ result.issues[i].severity = severity

\* C1: once an ERROR issue has been recorded is_valid is false, and no later
\* step of the run (no later check, WARNING or INFO issue) sets it back to
\* true or loses the ERROR.
C1_InvalidOnceErrorRecorded ==
    /\ [](HasError(result) => ~result.is_valid)
    /\ [][~result.is_valid => ~result'.is_valid]_vars
    /\ [][HasError(result) => HasError(result')]_vars

\* a finished run in which a WARNING and an INFO were recorded after an ERROR
C1_Witness ==
    /\ Finished
    /\ ~result.is_valid
    /\ \E i, j, k \in 1..Len(result.issues) :
        /\ i < j /\ i < k
        /\ result.issues[i].severity = Severity.ERROR
        /\ result.issues[j].severity = Severity.WARNING
        /\ result.issues[k].severity = Severity.INFO

\* C2: in every state of a run is_valid is true exactly when no ERROR issue
\* is in the issue list, missing_required is the "category.field" strings of
\* the ERROR issues in issue order (whatever the ERROR is about), warnings
\* holds one formatted entry per WARNING issue in issue order, and INFO
\* issues appear in neither list.
C2_BookkeepingAgreesWithIssues ==
    LET errors == IssuesOf(result, Severity.ERROR)
        warns == IssuesOf(result, Severity.WARNING)
    IN  /\ result.is_valid = (errors = <<>>)
        /\ result.missing_required =
              [i \in 1..Len(errors) |->
                  errors[i].category \o "." \o errors[i].field]
        /\ result.warnings =
              [i \in 1..Len(warns) |->
                  warns[i].category \o "." \o warns[i].field \o ": "
                      \o warns[i].message]

\* a finished run with an ERROR that is not about a missing field (an invalid
\* dcf_type that is present, growth >= discount rate), a WARNING and an INFO
C2_Witness ==
    /\ Finished
    /\ get_assumption(assumptions, "model_config", "dcf_type") = Some("apv")
    /\ Recorded("model_config", "dcf_type", Severity.ERROR)
    /\ get_assumption(assumptions, "terminal_value", "perpetuity_growth_rate") /= None
    /\ Recorded("terminal_value", "perpetuity_growth_rate", Severity.ERROR)
    /\ IssuesOf(result, Severity.WARNING) /= <<>>
    /\ IssuesOf(result, Severity.INFO) /= <<>>
    /\ Len(result.missing_required) >= 2

\* the implied discount rate as section 4.2 of the specification states it,
\* for a capital_structure dict whose risk_free_rate, equity_risk_premium and
\* beta are present: CAPM cost of equity when target_debt_to_equity is zero or
\* absent, else the weighted rate with cost_of_debt 5% and tax_rate 25% when
\* not supplied
StatedImpliedRate(cap) ==
    LET rf == Val(Get(cap, "risk_free_rate"))
        erp == Val(Get(cap, "equity_risk_premium"))
        beta == Val(Get(cap, "beta"))
        ke_num == 100 * rf + beta * erp
        target_de == Get(cap, "target_debt_to_equity")
        cod == IF Get(cap, "cost_of_debt") = None THEN 5
               ELSE Val(Get(cap, "cost_of_debt"))
        tax == IF Get(cap, "tax_rate") = None THEN 25
               ELSE Val(Get(cap, "tax_rate"))
    IN  IF target_de = None \/ Val(target_de) = 0
        THEN Reduce(ke_num, 10000)
        ELSE Reduce(100 * ke_num + Val(target_de) * cod * (100 - tax),
                    10000 * (100 + Val(target_de)))

\* risk_free_rate, equity_risk_premium and beta are all present
RateInputsPresent(cap) ==
    /\ Get(cap, "risk_free_rate") /= None
    /\ Get(cap, "equity_risk_premium") /= None
    /\ Get(cap, "beta") /= None

\* C3: when terminal_method is 'perpetuity' or 'both', perpetuity_growth_rate
\* is present and risk_free_rate, equity_risk_premium and beta are all
\* present, a run that returns has recorded an ERROR on
\* terminal_value.perpetuity_growth_rate exactly when the growth rate is >=
\* the implied discount rate, and the result is then invalid.
C3_GrowthErrorIffAtLeastImpliedRate ==
    LET cap == Section(assumptions, "capital_structure")
        method == get_assumption(assumptions, "model_config", "terminal_method")
        pg == get_assumption(assumptions, "terminal_value", "perpetuity_growth_rate")
        flagged == Recorded("terminal_value", "perpetuity_growth_rate",
                            Severity.ERROR)
    IN  (/\ Returned
         /\ method \in {Some("perpetuity"), Some("both")}
         /\ pg /= None
         /\ RateInputsPresent(cap))
        => /\ flagged <=> GrowthAtLeast(Val(pg), StatedImpliedRate(cap))
           /\ flagged => ~result.is_valid

\* C4: in a run that returns, every field that REQUIRED_ASSUMPTIONS declares for
\* model_config, revenue, costs and capital_structure and that is absent or
\* null in a section holding at least one other field has an ERROR recorded
\* under its category and name, and the result is invalid.
C4_RequiredFieldMissingIsError ==
    Returned =>
        \A category \in {"model_config", "revenue", "costs", "capital_structure"} :
            \A i \in 1..Len(REQUIRED_ASSUMPTIONS[category]) :
                LET field == REQUIRED_ASSUMPTIONS[category][i]
                    cat_data == Section(assumptions, category)
                IN  (DOMAIN cat_data \ {field} /= {} /\ Get(cat_data, field) = None)
                    => /\ Recorded(category, field, Severity.ERROR)
                       /\ ~result.is_valid

\* the assumption fields to which a key of REASONABLE_RANGES applies:
\* <<category, field, range key>>.  No assumption field corresponds to the
\* keys ebit_margin and wacc.
RangedFields ==
    { <<"revenue", "revenue_growth_y" \o ToString(i), "revenue_growth">> :
        i \in 1..MaxGrowthYear }
    \cup
    { <<"revenue", "terminal_growth_rate", "terminal_growth_rate">>,
      <<"terminal_value", "perpetuity_growth_rate", "perpetuity_growth_rate">>,
      <<"costs", "gross_margin_target", "gross_margin">>,
      <<"capital_structure", "risk_free_rate", "risk_free_rate">>,
      <<"capital_structure", "equity_risk_premium", "equity_risk_premium">>,
      <<"capital_structure", "beta", "beta">>,
      <<"capital_structure", "cost_of_debt", "cost_of_debt">>,
      <<"capital_structure", "tax_rate", "tax_rate">>,
      <<"terminal_value", "exit_multiple", "exit_multiple">>,
      <<"capex", "capex_pct_revenue", "capex_pct_revenue">>,
      <<"working_capital", "dso_days", "dso_days">>,
      <<"working_capital", "dio_days", "dio_days">>,
      <<"working_capital", "dpo_days", "dpo_days">> }

OutsideRange(value, range_key) ==
    \/ value < REASONABLE_RANGES[range_key][1]
    \/ value > REASONABLE_RANGES[range_key][2]

\* C5: in a run that returns, every assumption value that is present and lies
\* strictly outside the bound of its REASONABLE_RANGES key has a WARNING
\* recorded for its field, in any model configuration.
C5_EveryRangeKeyEnforced ==
    Returned =>
        \A rf \in RangedFields :
            LET value == get_assumption(assumptions, rf[1], rf[2])
            IN  (value /= None /\ OutsideRange(Val(value), rf[3]))
                => Recorded(rf[1], rf[2], Severity.WARNING)

\* C8: _calculate_implied_wacc returns None (the check is skipped) exactly
\* when at least one of risk_free_rate, equity_risk_premium and beta is
\* absent, whatever the values of those present (0 included).
C8_ImpliedRateSkippedIffInputAbsent ==
    (calculate_implied_wacc(assumptions).kind = "None")
        <=> ~RateInputsPresent(Section(assumptions, "capital_structure"))

\* C9: when _calculate_implied_wacc does not skip and target_debt_to_equity
\* is absent, null, zero or positive, it returns the rate of section 4.2
\* (cost of equity, or the weighted rate with the 5% and 25% defaults) and
\* does not fail.
C9_ImpliedRateValue ==
    LET cap == Section(assumptions, "capital_structure")
        target_de == Get(cap, "target_debt_to_equity")
        w == calculate_implied_wacc(assumptions)
    IN  (w.kind /= "None" /\ (target_de = None \/ Val(target_de) >= 0))
        => /\ w.kind = "rate"
           /\ Reduce(w.num, w.den) = StatedImpliedRate(cap)

\* beta is absent: the key is missing or null, or the section is missing or empty
BetaAbsent == get_assumption(assumptions, "capital_structure", "beta") = None

\* C10 as stated: in a finished run on an assumption set without
\* capital_structure.beta (field missing or null, section missing or empty)
\* an ERROR with category capital_structure and field 'beta' is recorded and
\* the result is invalid.
C10_BetaAbsentIsBetaError ==
    (Finished /\ BetaAbsent)
        => /\ Recorded("capital_structure", "beta", Severity.ERROR)
           /\ ~result.is_valid

\* C10 amended: in a finished run on an assumption set without
\* capital_structure.beta the result is invalid; the ERROR recorded is for
\* field 'beta' when the capital_structure section holds at least one key,
\* and for field 'all', with none for 'beta', when the section is missing or
\* empty.
C10_BetaAbsentIsError ==
    (Finished /\ BetaAbsent)
        => /\ ~result.is_valid
           /\ IF DOMAIN Section(assumptions, "capital_structure") /= {}
              THEN Recorded("capital_structure", "beta", Severity.ERROR)
              ELSE /\ Recorded("capital_structure", "all", Severity.ERROR)
                   /\ ~Recorded("capital_structure", "beta", Severity.ERROR)

\* a finished run on a non-empty capital_structure section whose beta is null
C10_Witness ==
    /\ Finished
    /\ "beta" \in DOMAIN Section(assumptions, "capital_structure")
    /\ BetaAbsent
    /\ Recorded("capital_structure", "beta", Severity.ERROR)

\* the issues recorded for category.field, in order
IssuesFor(category, field) ==
    SelectSeq(result.issues,
              LAMBDA i : i.category = category /\ i.field = field)

GrowthKey(i) == "revenue_growth_y" \o ToString(i)

\* C11: in a run that returns on a non-empty revenue section, each of
\* revenue_growth_y1, y2 and y3 that is absent has an ERROR recorded for it,
\* whatever model_config.projection_years is (absent, 0, 2 included).
C11_FirstThreeGrowthYearsRequired ==
    LET revenue == Section(assumptions, "revenue")
    IN  (Returned /\ DOMAIN revenue /= {})
        => \A i \in 1..3 :
               Get(revenue, GrowthKey(i)) = None
               => Recorded("revenue", GrowthKey(i), Severity.ERROR)

\* C12: in a run that returns with projection_years = N, for every year
\* 3 < i <= N an absent revenue_growth_y{i} has no issue and a present one
\* outside the revenue_growth bound has a WARNING for its field.
C12_LaterGrowthYearsRangeChecked ==
    LET revenue == Section(assumptions, "revenue")
        n == get_assumption(assumptions, "model_config", "projection_years")
    IN  (Returned /\ DOMAIN revenue /= {} /\ n /= None)
        => \A i \in 4..MaxGrowthYear :
               LET value == Get(revenue, GrowthKey(i))
               IN  i <= Val(n)
                   => /\ value = None
                         => IssuesFor("revenue", GrowthKey(i)) = <<>>
                      /\ (value /= None
                             /\ OutsideRange(Val(value), "revenue_growth"))
                         => Recorded("revenue", GrowthKey(i),
                                     Severity.WARNING)

\* C13: in a finished run on a non-empty capital_structure section, an ERROR
\* for target_debt_to_equity is recorded exactly when dcf_type is 'unlevered'
\* and the field is absent, and an ERROR for cost_of_debt exactly when
\* dcf_type is 'unlevered', target_debt_to_equity is present and > 0 and
\* cost_of_debt is absent; with any other dcf_type neither is recorded.
C13_ConditionalCapitalFields ==
    LET cap == Section(assumptions, "capital_structure")
        unlevered ==
            get_assumption(assumptions, "model_config", "dcf_type")
                = Some("unlevered")
        target_de == Get(cap, "target_debt_to_equity")
        cod == Get(cap, "cost_of_debt")
    IN  (Finished /\ DOMAIN cap /= {})
        => /\ Recorded("capital_structure", "target_debt_to_equity",
                       Severity.ERROR)
              <=> (unlevered /\ target_de = None)
           /\ Recorded("capital_structure", "cost_of_debt", Severity.ERROR)
              <=> (/\ unlevered
                   /\ target_de /= None
                   /\ Val(target_de) > 0
                   /\ cod = None)

\* a finished unlevered run with debt and no cost_of_debt, which is reported
C13_Witness ==
    LET cap == Section(assumptions, "capital_structure")
    IN  /\ Finished
        /\ get_assumption(assumptions, "model_config", "dcf_type")
              = Some("unlevered")
        /\ Get(cap, "target_debt_to_equity") = Some(50)
        /\ Get(cap, "cost_of_debt") = None
        /\ Recorded("capital_structure", "cost_of_debt", Severity.ERROR)
        /\ ~Recorded("capital_structure", "target_debt_to_equity",
                     Severity.ERROR)

\* an issue of `severity` with `message` for category.field has been recorded
RecordedMessage(category, field, severity, message) ==
    \E i \in 1..Len(result.issues) :
        result.issues[i] =
            ValidationIssue(category, field, message, severity, None)

PerpetuityGrowthMissing ==
    RecordedMessage("terminal_value", "perpetuity_growth_rate", Severity.ERROR,
        "Perpetuity growth rate is required for Gordon Growth method")

ExitMultipleMissing ==
    RecordedMessage("terminal_value", "exit_multiple", Severity.ERROR,
        "Exit EBITDA multiple is required")

EnumeratedFields ==
    { <<"dcf_type", {"unlevered", "levered"}>>,
      <<"complexity", {"2-stage", "3-stage", "lbo"}>>,
      <<"terminal_method", {"perpetuity", "exit_multiple", "both"}>> }

\* exactly one issue, of `severity`, is recorded for model_config.field
OneConfigIssue(field, severity) ==
    LET issues == IssuesFor("model_config", field)
    IN  Len(issues) = 1 /\ issues[1].severity = severity

\* C15: in a finished run, each of dcf_type, complexity and terminal_method
\* has exactly one ERROR and no other issue when it is absent or not an
\* allowed value, and no issue when it is allowed; projection_years has one
\* ERROR when absent, one WARNING and no ERROR when below 3 or above 15, and
\* no issue from 3 to 15, both included.
C15_ModelConfigRules ==
    Finished
    => /\ \A ef \in EnumeratedFields :
              LET value == get_assumption(assumptions, "model_config", ef[1])
              IN  IF value /= None /\ Val(value) \in ef[2]
                  THEN IssuesFor("model_config", ef[1]) = <<>>
                  ELSE OneConfigIssue(ef[1], Severity.ERROR)
       /\ LET n == get_assumption(assumptions, "model_config",
                                  "projection_years")
          IN  IF n = None
              THEN OneConfigIssue("projection_years", Severity.ERROR)
              ELSE IF Val(n) < 3 \/ Val(n) > 15
              THEN OneConfigIssue("projection_years", Severity.WARNING)
              ELSE IssuesFor("model_config", "projection_years") = <<>>

\* a finished run with projection_years at the bound 15 and nothing recorded
\* for it, and an invalid dcf_type that is reported
C15_Witness ==
    /\ Finished
    /\ get_assumption(assumptions, "model_config", "projection_years")
          = Some(15)
    /\ IssuesFor("model_config", "projection_years") = <<>>
    /\ get_assumption(assumptions, "model_config", "dcf_type") = Some("apv")
    /\ OneConfigIssue("dcf_type", Severity.ERROR)
    /\ get_assumption(assumptions, "model_config", "complexity") = Some("lbo")
    /\ IssuesFor("model_config", "complexity") = <<>>

\* beta values inside the bound [0.3, 3.0], its two endpoints among them
BetaInsideBound == {30, 110, 300}

\* validate_all returns a valid result on assumption set a
ValidSet(a) ==
    /\ ~validate_all_raises(a)
    /\ \A i \in 1..Len(validate_all_issues(a)) :
           validate_all_issues(a)[i].severity /= Severity.ERROR

\* the ERROR of a perpetuity growth rate not below the implied discount rate
GrowthNotBelowRate ==
    \E i \in 1..Len(result.issues) :
        /\ result.issues[i].category = "terminal_value"
        /\ result.issues[i].field = "perpetuity_growth_rate"
        /\ result.issues[i].severity = Severity.ERROR
        /\ ~PerpetuityGrowthMissing

\* C16: in a finished run on a non-empty capital_structure section, each of
\* risk_free_rate, equity_risk_premium and beta that is present has no issue
\* when inside its bound, endpoints included, and exactly one WARNING and no
\* ERROR when strictly outside; and when validate_all returns on an
\* out-of-range beta, the result is valid whenever the same assumption set
\* with an in-range beta is valid, unless the growth rate is thereby not
\* below the implied discount rate.
C16_OutOfRangeIsOneWarning ==
    LET cap == Section(assumptions, "capital_structure")
        beta == Get(cap, "beta")
    IN  /\ Finished
           => \A field \in {"risk_free_rate", "equity_risk_premium", "beta"} :
                  LET value == Get(cap, field)
                      issues == IssuesFor("capital_structure", field)
                  IN  value /= None
                      => IF OutsideRange(Val(value), field)
                         THEN /\ Len(issues) = 1
                              /\ issues[1].severity = Severity.WARNING
                         ELSE issues = <<>>
        /\ (/\ Returned
            /\ beta /= None
            /\ OutsideRange(Val(beta), "beta")
            /\ ~GrowthNotBelowRate
            /\ \E b \in BetaInsideBound :
                   ValidSet(With(assumptions, "capital_structure",
                                 [cap EXCEPT !.beta = Some(b)])))
           => result.is_valid

\* a run that returns a valid result on a beta just above the bound, with its
\* one WARNING
C16_Witness ==
    /\ Returned
    /\ get_assumption(assumptions, "capital_structure", "beta") = Some(301)
    /\ Len(IssuesFor("capital_structure", "beta")) = 1
    /\ Recorded("capital_structure", "beta", Severity.WARNING)
    /\ result.is_valid

\* the issues recorded under `category`, in order
IssuesIn(category) ==
    SelectSeq(result.issues, LAMBDA i : i.category = category)

\* exactly one issue is recorded under `category`: a WARNING for field 'all'
OnlySectionWarning(category) ==
    /\ Len(IssuesIn(category)) = 1
    /\ IssuesIn(category)[1].field = "all"
    /\ IssuesIn(category)[1].severity = Severity.WARNING

\* no issue under `category` is an ERROR
NoErrorIn(category) ==
    \A i \in 1..Len(IssuesIn(category)) :
        IssuesIn(category)[i].severity /= Severity.ERROR

C18_ScenarioKeysAreInfo ==
    Returned
    => /\ \A i \in 1..Len(IssuesIn("scenarios")) :
              IssuesIn("scenarios")[i].severity = Severity.INFO
       /\ IF "scenarios" \notin DOMAIN assumptions
          THEN IssuesIn("scenarios") = <<>>
          ELSE \A s \in {"base", "bull", "bear"} :
                   s \notin DOMAIN assumptions.scenarios
                   => /\ Len(IssuesFor("scenarios", s)) = 1
                      /\ IssuesFor("scenarios", s)[1].severity = Severity.INFO

\* the position in validate_all of the check that records under a category
CheckOrder ==
    [model_config |-> 1, revenue |-> 2, costs |-> 3, capital_structure |-> 4,
     terminal_value |-> 5, working_capital |-> 6, capex |-> 7, scenarios |-> 8]

\* C19: in every state of a run no issue of a later check precedes in the
\* issue list an issue of an earlier check (the order being model config,
\* revenue, costs, capital structure, terminal value, working capital, capex,
\* scenarios), and a finished run has run all eight checks and returned,
\* whatever ERRORs the earlier checks recorded.
C19_ChecksRunInOrder ==
    /\ \A i, j \in 1..Len(result.issues) :
           i < j => CheckOrder[result.issues[i].category]
                        <= CheckOrder[result.issues[j].category]
    /\ Finished => Returned

\* C20: whenever validate_all has returned, on its first or on a later
\* invocation on the same instance, the result is the one a single run on the
\* assumption set yields: same is_valid, same issues in the same order, same
\* missing_required and warnings, nothing duplicated or added.
C20_RepeatedRunSameResult ==
    Returned
    => result = add_issues(NewValidationResult,
                           validate_all_issues(assumptions))

\* the sections whose absence is an ERROR
RequiredSections == {"revenue", "costs", "capital_structure"}

\* the section is missing from the assumption set or is an empty mapping
SectionMissing(category) == DOMAIN Section(assumptions, category) = {}

\* the issues a run on assumption set a records under `category`
IssuesOfRun(a, category) ==
    SelectSeq(validate_all_issues(a), LAMBDA i : i.category = category)

\* the checks whose outcome does not depend on the section `category`
ChecksApartFrom(category) ==
    DOMAIN CheckOrder
    \ (IF category = "capital_structure"
       THEN {"capital_structure", "terminal_value"}
       ELSE {category})

\* C30: when the revenue, costs or capital_structure section is missing or
\* empty, every issue recorded under that category is an ERROR for field
\* 'all' and there is at most one; once the run has finished there is exactly
\* one, missing_required holds '<category>.all' and the result is invalid; a
\* missing capital_structure never keeps the run from returning; and in a run
\* that returns, the other checks have recorded what they record when the
\* section is supplied.
C30_MissingSectionIsOneError ==
    \A category \in RequiredSections :
        SectionMissing(category) =>
            /\ Len(IssuesIn(category)) <= 1
            /\ \A i \in 1..Len(IssuesIn(category)) :
                   /\ IssuesIn(category)[i].field = "all"
                   /\ IssuesIn(category)[i].severity = Severity.ERROR
            /\ Finished =>
                   /\ Len(IssuesIn(category)) = 1
                   /\ \E i \in 1..Len(result.missing_required) :
                          result.missing_required[i] = category \o ".all"
                   /\ ~result.is_valid
            /\ (Finished /\ category = "capital_structure") => Returned
            /\ Returned =>
                   \A other \in ChecksApartFrom(category) :
                       IssuesIn(other) =
                           IssuesOfRun(With(assumptions, category,
                                            BaseAssumptions[category]),
                                       other)

\* a run has returned on an assumption set without revenue and capex: the
\* revenue ERROR for field 'all' is followed by the capex WARNING
C30_Witness ==
    /\ Returned
    /\ "revenue" \notin DOMAIN assumptions
    /\ Len(IssuesIn("revenue")) = 1
    /\ Recorded("revenue", "all", Severity.ERROR)
    /\ Recorded("capex", "all", Severity.WARNING)

-----------------------------------------------------------------------------
(* Properties of the metrics calculator *)

\* the value the statement holds for a line item and year, under either
\* kind of key; None when it holds none
Stored(statement, line_item, year) ==
    LET values == IF line_item \in DOMAIN statement
                  THEN statement[line_item] ELSE EmptyValues
    IN  IF year \in DOMAIN values.int
        THEN values.int[year]
        ELSE Get(values.str, year)

\* (v(y) - v(prior)) / abs(v(prior)) when both are defined and v(prior) /= 0,
\* undefined otherwise
StatedGrowth(current, prior) ==
    IF current /= None /\ prior /= None /\ Val(prior) /= 0
    THEN Some(Reduce(Val(current) - Val(prior), Abs(Val(prior))))
    ELSE None

GrowthOf ==
    [revenue |-> metrics.revenue_growth,
     gross_profit |-> metrics.gross_profit_growth,
     operating_income |-> metrics.ebit_growth,
     net_income |-> metrics.net_income_growth]

\* C6: once calculate_all has returned, for each of revenue, gross profit,
\* operating income and net income the growth dict holds exactly the years
\* of the years list except the oldest, and the growth of year y is
\* (v(y) - v(prior)) / abs(v(prior)) when the statement holds both values and
\* v(prior) /= 0 (a current value of exactly 0 included), undefined otherwise.
C6_GrowthFromStatementValues ==
    Calculated =>
        \A line_item \in DOMAIN GrowthOf :
            /\ DOMAIN GrowthOf[line_item] = AllButLast(years)
            /\ \A y \in AllButLast(years) :
                   GrowthOf[line_item][y] =
                       StatedGrowth(
                           Stored(Income(data), line_item, y),
                           Stored(Income(data), line_item,
                                  Val(PriorYear(years, y))))

\* C7: once calculate_all has returned, debt_to_equity and debt_to_ebitda are
\* not reported as 0 for a year in which the balance sheet holds neither a
\* long-term nor a short-term debt value.
C7_NoDebtValueIsNotZeroLeverage ==
    Calculated =>
        \A y \in Range(years) :
            (/\ Stored(Balance(data), "long_term_debt", y) = None
             /\ Stored(Balance(data), "short_term_debt", y) = None)
            => /\ Get(metrics.debt_to_equity, y) /= Some(QOf(0))
               /\ Get(metrics.debt_to_ebitda, y) /= Some(QOf(0))

\* C21: once calculate_all has returned, no ROIC value is produced for a year
\* in which the balance sheet holds no total_equity value.
C21_RoicRequiresEquity ==
    Calculated =>
        \A y \in Range(years) :
            Stored(Balance(data), "total_equity", y) = None
            => Get(metrics.roic, y) = None

\* the metric value of a year: None when the map has no entry for the year
\* or holds an undefined value
Metric(values, y) == Get(values, y)

\* the statement holds a value other than 0
StoredNonZero(statement, line_item, y) ==
    /\ Stored(statement, line_item, y) /= None
    /\ Val(Stored(statement, line_item, y)) /= 0

\* C22: once calculate_all has returned, for every year of the years list
\* DSO (DIO, DPO) is defined exactly when the statement holds receivables
\* (inventory, payables) and a non-zero revenue (cost of revenue), and the
\* cash conversion cycle is defined exactly when all three are defined and
\* then equals DSO + DIO - DPO.
C22_CashConversionCycle ==
    Calculated =>
        \A y \in Range(years) :
            /\ Metric(metrics.dso, y) /= None
               <=> /\ Stored(Balance(data), "accounts_receivable", y) /= None
                   /\ StoredNonZero(Income(data), "revenue", y)
            /\ Metric(metrics.dio, y) /= None
               <=> /\ Stored(Balance(data), "inventory", y) /= None
                   /\ StoredNonZero(Income(data), "cost_of_revenue", y)
            /\ Metric(metrics.dpo, y) /= None
               <=> /\ Stored(Balance(data), "accounts_payable", y) /= None
                   /\ StoredNonZero(Income(data), "cost_of_revenue", y)
            /\ Metric(metrics.cash_conversion_cycle, y) /= None
               <=> /\ Metric(metrics.dso, y) /= None
                   /\ Metric(metrics.dio, y) /= None
                   /\ Metric(metrics.dpo, y) /= None
            /\ Metric(metrics.cash_conversion_cycle, y) /= None
               => Val(Metric(metrics.cash_conversion_cycle, y)) =
                      QSub(QAdd(Val(Metric(metrics.dso, y)),
                                Val(Metric(metrics.dio, y))),
                           Val(Metric(metrics.dpo, y)))

\* a statement value, 0 when the statement holds none
StoredOrZero(statement, line_item, y) ==
    IF Stored(statement, line_item, y) = None
    THEN 0
    ELSE Val(Stored(statement, line_item, y))

\* (longTermDebt + shortTermDebt + equity) - cash of year y
StatedInvestedCapital(y) ==
    QOf(StoredOrZero(Balance(data), "long_term_debt", y)
        + StoredOrZero(Balance(data), "short_term_debt", y)
        + StoredOrZero(Balance(data), "total_equity", y)
        - StoredOrZero(Balance(data), "cash", y))

\* EBIT * (1 - effectiveTaxRate), the rate being incomeTax / pretaxIncome for
\* a positive pretax income and 25% otherwise
StatedNopat(y) ==
    LET ebit == StoredOrZero(Income(data), "operating_income", y)
        tax == StoredOrZero(Income(data), "income_tax", y)
        pretax == StoredOrZero(Income(data), "pretax_income", y)
    IN  IF pretax > 0
        THEN Reduce(ebit * (pretax - tax), pretax)
        ELSE Reduce(ebit * 3, 4)

OldestYear == years[Len(years)]

\* the denominator of ROIC: the invested capital of the oldest year itself,
\* the mean of the year's and the prior year's invested capital otherwise
StatedAverageCapital(y) ==
    IF y = OldestYear
    THEN StatedInvestedCapital(y)
    ELSE QDiv(QAdd(StatedInvestedCapital(y),
                   StatedInvestedCapital(Val(PriorYear(years, y)))),
              QOf(2))

\* C23: once calculate_all has returned, every ROIC entry is NOPAT divided by
\* the average invested capital when that is non-zero and undefined when it
\* is zero, where the average of the oldest year of the years list is that
\* year's own invested capital and the average of every other year is the
\* mean of the year's and the prior year's invested capital.
C23_RoicAverageInvestedCapital ==
    Calculated =>
        \A y \in DOMAIN metrics.roic :
            metrics.roic[y] =
                IF StatedAverageCapital(y).num = 0
                THEN None
                ELSE Some(QDiv(StatedNopat(y), StatedAverageCapital(y)))

\* ROIC has been computed for the oldest of several years, whose invested
\* capital is not zero, and for the year after it
C23_Witness ==
    /\ Calculated
    /\ Len(years) >= 2
    /\ Metric(metrics.roic, OldestYear) /= None
    /\ Val(Metric(metrics.roic, OldestYear)).num /= 0
    /\ Metric(metrics.roic, years[Len(years) - 1]) /= None
    /\ StatedInvestedCapital(years[Len(years) - 1])
           /= StatedInvestedCapital(OldestYear)

\* the metric maps get_averages reads, by the key of their average
AveragedMetrics ==
    [avg_revenue_growth |-> metrics.revenue_growth,
     avg_gross_margin |-> metrics.gross_margin,
     avg_ebit_margin |-> metrics.ebit_margin,
     avg_ebitda_margin |-> metrics.ebitda_margin,
     avg_net_margin |-> metrics.net_margin,
     avg_roa |-> metrics.roa,
     avg_roe |-> metrics.roe,
     avg_roic |-> metrics.roic,
     avg_dso |-> metrics.dso,
     avg_dio |-> metrics.dio,
     avg_dpo |-> metrics.dpo,
     avg_capex_to_revenue |-> metrics.capex_to_revenue,
     avg_effective_tax_rate |-> metrics.effective_tax_rate]

\* the years for which a metric map holds a defined value
DefinedYears(values) == {y \in DOMAIN values : values[y] /= None}

\* the sum of the values a metric map holds for the years `ys`, newest first
RECURSIVE TotalOf(_, _)
TotalOf(values, ys) ==
    IF ys = {}
    THEN QOf(0)
    ELSE LET newest == CHOOSE y \in ys : \A z \in ys : z <= y
         IN  QAdd(TotalOf(values, ys \ {newest}), Val(values[newest]))

\* C25: once get_averages has returned, it holds exactly the thirteen
\* averages, and each is undefined when its metric has no defined year-value
\* and otherwise is the number whose product with the count of defined
\* year-values is their sum.
C25_AverageOfDefinedValues ==
    Averaged =>
        /\ DOMAIN averages = DOMAIN AveragedMetrics
        /\ \A k \in DOMAIN AveragedMetrics :
               LET values == AveragedMetrics[k]
                   defined == DefinedYears(values)
               IN  IF defined = {}
                   THEN averages[k] = None
                   ELSE /\ averages[k] /= None
                        /\ QMul(Val(averages[k]), QOf(Cardinality(defined)))
                               = TotalOf(values, defined)

\* get_averages has returned for metrics of which one has two different
\* defined year-values and an undefined one, and another has entries but no
\* defined year-value
C25_Witness ==
    /\ Averaged
    /\ \E k \in DOMAIN AveragedMetrics :
           LET values == AveragedMetrics[k]
           IN  /\ Cardinality(DefinedYears(values)) >= 2
               /\ \E y, z \in DefinedYears(values) : values[y] /= values[z]
               /\ DefinedYears(values) /= DOMAIN values
               /\ averages[k] /= None
    /\ \E k \in DOMAIN AveragedMetrics :
           /\ DOMAIN AveragedMetrics[k] /= {}
           /\ DefinedYears(AveragedMetrics[k]) = {}
           /\ averages[k] = None

\* the years list as the input gives it
InputYears == GetDefault(data, "years", <<>>)

\* the available years below y
YearsBelow(y) == {z \in Range(InputYears) : z < y}

\* the greatest available year below y
GreatestBelow(y) == CHOOSE z \in YearsBelow(y) : \A w \in YearsBelow(y) : w <= z

\* the value of a balance sheet item in the greatest available year below y,
\* None when there is no such year
AtGreatestBelow(line_item, y) ==
    IF YearsBelow(y) = {}
    THEN None
    ELSE get_value(Balance(data), line_item, GreatestBelow(y))

\* C29: the calculator's years list holds the input's years newest first,
\* whatever order the input lists them in; once calculate_all has returned,
\* the metrics carry that list, every key of every metric map is one of its
\* years, and the growth rates and the ROA and ROE averages of a year y take
\* as prior values those of the greatest available year below y.
C29_SortedYearsAndPriorYear ==
    /\ Len(years) = Len(InputYears)
    /\ Range(years) = Range(InputYears)
    /\ \A i \in 1..Len(years), j \in 1..Len(years) :
           i < j => years[i] > years[j]
    /\ Calculated =>
        /\ metrics.years = years
        /\ \A f \in DOMAIN metrics \ {"years"} :
               DOMAIN metrics[f] \subseteq Range(years)
        /\ \A line_item \in DOMAIN GrowthOf :
               \A y \in Range(years) :
                   IF YearsBelow(y) = {}
                   THEN y \notin DOMAIN GrowthOf[line_item]
                   ELSE /\ y \in DOMAIN GrowthOf[line_item]
                        /\ GrowthOf[line_item][y] =
                            calc_growth(
                                get_value(Income(data), line_item, y),
                                get_value(Income(data), line_item,
                                          GreatestBelow(y)))
        /\ \A y \in Range(years) :
               /\ Get(metrics.roa, y) =
                      safe_divide(
                          get_value(Income(data), "net_income", y),
                          avg(get_value(Balance(data), "total_assets", y),
                              AtGreatestBelow("total_assets", y)))
               /\ Get(metrics.roe, y) =
                      safe_divide(
                          get_value(Income(data), "net_income", y),
                          avg(get_value(Balance(data), "total_equity", y),
                              AtGreatestBelow("total_equity", y)))

\* calculate_all has returned for an input that lists its years oldest first
\* and leaves a year out, and a growth rate and a ROA are defined for a year
\* whose prior year is not the calendar year before it
C29_Witness ==
    /\ Calculated
    /\ InputYears /= years
    /\ \E y \in Range(years) :
           /\ YearsBelow(y) /= {}
           /\ GreatestBelow(y) < y - 1
           /\ Metric(metrics.revenue_growth, y) /= None
           /\ Metric(metrics.roa, y) /= None

-----------------------------------------------------------------------------
(* Properties of the helpers of the metrics calculator *)

\* C24: _safe_divide(n, d) returns undefined when n is undefined, d is
\* undefined or d = 0, whatever n is, and otherwise returns the number whose
\* product with d is n, which is 0 for n = 0.
C24_SafeDivide ==
    HasReturned("_safe_divide") =>
        LET n == call.value1
            d == call.value2
        IN  IF n = None \/ d = None \/ d = Some(QOf(0))
            THEN ReturnValue = None
            ELSE /\ ReturnValue /= None
                 /\ QMul(Val(ReturnValue), Val(d)) = Val(n)
                 /\ (n = Some(QOf(0)) => ReturnValue = Some(QOf(0)))

\* _safe_divide has returned 0 for a numerator of 0 and a non-zero denominator
C24_Witness ==
    /\ HasReturned("_safe_divide")
    /\ call.value1 = Some(QOf(0))
    /\ call.value2 /= None
    /\ call.value2 /= Some(QOf(0))
    /\ ReturnValue = Some(QOf(0))

\* the stored value as the accessor hands it on: a number, or None
StoredNumber(statement, line_item, year) ==
    IF Stored(statement, line_item, year) = None
    THEN None
    ELSE Some(QOf(Val(Stored(statement, line_item, year))))

\* C27: _get_value(statement, item, year) returns the value the item's values
\* map holds for the year under the integer or the string key, 0 included,
\* and undefined exactly when the item is missing or has no entry for the
\* year.
C27_GetValueReturnsStored ==
    HasReturned("_get_value") =>
        ReturnValue =
            StoredNumber(call.statement, call.line_item, call.year)

\* what average(a, b) is stated to be: the mean of two defined operands, the
\* defined one of the two, undefined when neither is defined
StatedAverage(a, b) ==
    IF a /= None /\ b /= None
    THEN Some(QDiv(QAdd(Val(a), Val(b)), QOf(2)))
    ELSE IF a /= None THEN a ELSE b

\* C28: _avg(a, b) returns (a + b) / 2 when both are defined, the defined
\* operand when exactly one is defined, whichever of the two it is and 0
\* included, and undefined only when both are undefined.
C28_AvgOfOptionalOperands ==
    HasReturned("_avg") =>
        ReturnValue = StatedAverage(call.value1, call.value2)

-----------------------------------------------------------------------------
(* Properties of the parser *)

\* the years for which a line item of the produced statements holds a value
EmittedYears ==
    UNION {DOMAIN data[statement][item].int :
              <<statement, item>> \in
                  UNION {{<<s, i>> : i \in DOMAIN data[s]} :
                            s \in DOMAIN data \ {"years"}}}

\* C26: once to_model_format has returned, the years list holds exactly the
\* years for which a line item of the produced income statement, balance
\* sheet or cash-flow statement has a value, newest first and none twice.
C26_YearsAreYearsWithValues ==
    Parsed =>
        /\ Range(data.years) = EmittedYears
        /\ \A i \in 1..Len(data.years), j \in 1..Len(data.years) :
               i < j => data.years[i] > data.years[j]

====
